---- MODULE Spec2Model ----
(***************************************************************************)
(* Model of the plugin host instance of the SuperCollider UGen.            *)
(*                                                                         *)
(* Two implementations of the host live in the repository:                 *)
(*   VSTPlugin  (src/src/old/VSTInterface.h, lines 200-2228): every        *)
(*              blocking operation is an asynchronous command with a       *)
(*              worker-side stage (stage 2, nrt) and an audio-side stage   *)
(*              (stage 3, rt);                                             *)
(*   VstPlugin  (src/unnamed/part_000): open, close and setParam run       *)
(*              synchronously in the thread that calls them.               *)
(* Spec and SpecInbox are behaviours of VSTPlugin, SpecSync is the         *)
(* behaviour of VstPlugin. Both classes are built with VSTTHREADS=1        *)
(* (src/vst/Interface.h:22), not for macOS, and the plugin supports single *)
(* precision processing.                                                   *)
(***************************************************************************)
EXTENDS Integers, Sequences, FiniteSets, TLC

(* ------------------------------ bounds -------------------------------- *)
\* number of Open commands that may be submitted (a plugin is numbered by
\* the Open that creates it)
MaxOpens == 2
\* number of asynchronous commands that may be submitted altogether
MaxCmds == 4
\* number of parameterAutomated callbacks the editor may make
MaxEvents == 2
\* number of parameters of a plugin: plugin_->getNumParameters()
NumParams == 1
\* number of bytes of the largest preset a client uploads or a plugin writes
MaxData == 3
\* number of preset bytes that fit into one reply packet
MaxPacket == 2
\* number of programs of a backend
NumPrograms == 2

Null == 0
\* quiet_NaN(), the value of a parameter slot that was never set; a float
\* compares unequal to it, and it compares unequal to itself
NaN == -1
FloatNe(a, b) == a = NaN \/ b = NaN \/ a # b
\* the parameter values clients and control busses write (a new plugin holds 0)
ParamValues == {1, 2}
\* the bytes of a preset
Bytes == {0, 1}
\* a byte of the upload buffer that was allocated and never written
Uninit == 2
\* no upload in progress, or one whose packets came out of order
NoUpload ==
    [total |-> 0, bytes |-> << >>, inOrder |-> FALSE, packets |-> 0, cmds |-> 0,
     dropped |-> FALSE]
\* paramStates_ == nullptr
NoStates == << >>
\* bus: -1 (not mapped) or the number of the one control bus
NoBus == -1
TheBus == 0
PluginIds == 1..MaxOpens
ParamIdx == 0..(NumParams - 1)

VARIABLES
    plugin_,      \* plugin_   : Null or the id of the loaded plugin
    window_,      \* window_   : Null or the id of the plugin whose editor window it is
    thread_,      \* thread_   : Null or the id of the plugin whose GUI thread it is (joinable)
    isLoading_,   \* VSTPlugin::isLoading_
    nrtQueue,     \* commands submitted with DoAsynchronousCommand, waiting for stage 2 (worker)
    nrtCur,       \* <<c>> while the worker executes stage 2 of c, else << >>
    rtQueue,      \* commands whose stage 2 is done, waiting for stage 3 (audio thread)
    nSubmitted,   \* number of commands submitted so far
    nOpens,       \* number of Opens started so far
    nrtDone,      \* seq of the command whose stage 2 ended last
    rtDone,       \* seq of the command whose stage 3 ended last
    rtPc,         \* the audio thread: "idle" (between blocks), "process" (in next(), in the
                  \* backend section), "waiting" (in next(), blocked on mutex_)
    mutex_,       \* owner of mutex_ : "free" or "gui"
    guiPc,        \* the GUI thread in parameterAutomated: "idle" or "locked"
    guiEv,        \* <<e>>: the event the GUI thread is about to push, else << >>
    paramQueue_,  \* paramQueue_ : the events in the inbox
    pushed,       \* history: the events appended to the inbox
    delivered,    \* reply stream: the events sent as /vst_param + /vst_auto
    bypass_,      \* VstPlugin::bypass_
    capacity,     \* VstPlugin::paramQueue_.capacity
    queueBytes,   \* VstPlugin::paramQueue_.data: the bytes allocated for it
    plugins,      \* per plugin id: the backend object
    lastReset,    \* who made the last suspend()+resume(): "none", "reset" (the reset
                  \* command), "next" (next() itself)
    openReplies,  \* reply stream: the /vst_open replies, oldest first
    log,          \* the last message logged
    lastClose,    \* history: <<nOpens, isLoading_>> at the last close() call that was not
                  \* dropped for a failed allocation
    fault,        \* "none", or the undefined behaviour the process ran into
    paramStates_, \* paramStates_ : NoStates (nullptr) or, per parameter, [value, bus]
    block,        \* history: the last call of next(): the setParameter calls it made, the
                  \* value of the control bus, its parameter control inputs, and whether
                  \* these differ from the inputs of the call before
    unmapped,     \* history: the parameters whose last map operation was unmapParam
    paramReplies, \* reply stream: the /vst_param replies of setParamDone, <<index, value>>
    dataRT_,      \* dataRT_ : the upload buffer, a sequence of bytes (Uninit: not written)
    dataSize_,    \* dataSize_
    dataReceived_,\* dataReceived_
    upload,       \* history: the upload in progress since its packet with onset 0,
                  \* [total, bytes, inOrder, packets, cmds, dropped]
    dataNRT_,     \* dataNRT_ : the preset the worker serialized for a download
    dataSent_,    \* dataSent_
    doneQueue,    \* preset commands whose stages 2 and 3 are over, waiting for stage 4
                  \* and the RT deallocator: [seq, stages, destroyed]
    freed,        \* history: every command cmdRTfree gave back, [seq, stages]
    dataReplies,  \* reply stream of the preset commands: [addr, seq, args, live], live
                  \* telling whether the command's memory was allocated when it was read
    rtMsgs,       \* FifoMsg sent with SendMsgToRT, waiting for the audio thread
    callbacks,    \* history: the listener callbacks the plugin made on the audio thread, the
                  \* worker or the GUI thread of MIDI: [kind, thread, index, value]
    midiOut,      \* reply stream: /vst_midi and /vst_sysex, <<kind, value>>
    bigEndian,    \* the build: BYTE_ORDER != LITTLE_ENDIAN
    fx,           \* the VST2 backend of the plugin: [chunks, program, programs, chunk,
                  \* bankChunk], programs[p] = [name, params]
    fxBuffer,     \* the buffer of the caller of writeProgramData / writeBankData, until
                  \* the next operation on the backend
    fxOp,         \* history: the last operation on the backend,
                  \* [op, form, declared, body, bad, result, changed]
    ioLog,        \* history: the file operations of the worker, [seq, op, ok]
    lastSetn,     \* history: the last setn unit command, [index, count, values, set],
                  \* set being the <<index, value>> it passed to setParam, in order
    unitFreed,    \* ~VSTPlugin has run: the memory of the instance is given back
    vsteditor,    \* the t_vsteditor of the Pd external: [open, window, mutex, sys, clock,
                  \* gui, guiEv, main, queue, swapped, out, posted, gaveUp]
    manager       \* the PluginManager of the process: [writer, readers, pc, factories,
                  \* plugins, exceptions]; writer and readers hold mutex_, pc[t] is the
                  \* member function thread t is in

instVars  == <<plugin_, window_, thread_, isLoading_>>
queueVars == <<nrtQueue, nrtCur, rtQueue, nSubmitted, nOpens, nrtDone, rtDone>>
inboxVars == <<mutex_, guiPc, guiEv, paramQueue_, pushed, delivered>>
syncVars  == <<bypass_, capacity, queueBytes>>
paramVars == <<paramStates_, block, unmapped, paramReplies>>
dataVars  == <<dataRT_, dataSize_, dataReceived_, upload, dataNRT_, dataSent_, doneQueue,
               freed, dataReplies>>
cbVars    == <<rtMsgs, callbacks, midiOut>>
codecVars == <<bigEndian, fx, fxBuffer, fxOp, ioLog>>
sideVars  == <<lastSetn, unitFreed, manager, vsteditor>>
extVars   == <<paramVars, dataVars, cbVars, codecVars, sideVars>>
vars == <<instVars, queueVars, rtPc, inboxVars, syncVars, plugins, lastReset,
          openReplies, log, lastClose, fault, extVars>>

(* ------------------------- the backend (external) --------------------- *)
\* A backend object. state: "none" (not created), "live", "freed";
\* createdOn/freedOn: the thread that called loadVSTPlugin / freeVSTPlugin;
\* frees: how often it was freed; listener: setListener() was called with
\* the instance's listener; loop: the GUI thread of this plugin runs the
\* message loop of its window; param: the value of each parameter; data: the
\* preset it holds (what writeProgramData gives and readProgramData takes);
\* window: its editor window, "none", "live" or "destroyed";
\* windowCreatedOn/windowDestroyedOn: the thread that called
\* VSTWindowFactory::create / dropped the last shared_ptr to the window.
NoPlugin == [state |-> "none", createdOn |-> "none", freedOn |-> "none",
             frees |-> 0, listener |-> FALSE, loop |-> FALSE,
             param |-> [i \in ParamIdx |-> 0], data |-> << >>,
             window |-> "none", windowCreatedOn |-> "none", windowDestroyedOn |-> "none"]

\* the plugins whose editor can call the listener from the GUI thread
GuiPlugins == {p \in PluginIds : plugins[p].loop /\ plugins[p].listener}

Live == {p \in PluginIds : plugins[p].state = "live"}

(* ----------------------------- commands -------------------------------- *)
\* VSTPluginCmdData / ParamCmdData: what a command carries.
\*   plugin, window, thread : the handles moved into a Close, or created by an Open
\*   id                     : (Open) the number of this Open, which names the plugin it creates
\*   value                  : gui flag (Open), parameter value (SetParam)
\*   target                 : what owner->plugin() returned when stage 2 read it
\*   buf, size              : the payload behind the command (preset data, reply packet)
\*   stages                 : history: how many of stage 2 and stage 3 have run
\*   buf, size              : the bytes behind the command, and how many are used
CmdData(kind, seq) ==
    [kind |-> kind, seq |-> seq, plugin |-> Null, window |-> Null, thread |-> Null,
     id |-> 0, index |-> 0, value |-> 0, target |-> Null, buf |-> << >>, size |-> 0,
     stages |-> 0]

\* all commands in flight, oldest first
InFlight == rtQueue \o nrtCur \o nrtQueue

\* a doCmd that would put the command at the front of the FIFO
doCmdAtFront(queue, cmdData) == <<cmdData>> \o queue

\* VSTPlugin::doCmd: DoAsynchronousCommand puts the command at the end of the
\* engine's FIFO to the worker thread (a null cmdData submits nothing: the
\* callers below do not call doCmd then).
doCmd(queue, cmdData) == Append(queue, cmdData)

(* ----------------------- the VST2 backend: presets --------------------- *)
\* a 32-bit value (VstInt32 or float) as its four bytes, most significant first
IntWord(n) == <<0, 0, n \div 256, n % 256>>
WordInt(w) == ((w[1] * 256 + w[2]) * 256 + w[3]) * 256 + w[4]

\* the floats 0.5 and 1.0
FloatWords == {<<63, 0, 0, 0>>, <<63, 128, 0, 0>>}

\* a backend as loadVSTPlugin returns it: plugin chunks or parameters, the
\* programs with their names ("A", "B", ...) and parameters
NewFx(chunks) ==
    [chunks |-> chunks, program |-> 0,
     programs |-> [p \in 0..(NumPrograms - 1) |->
                     [name |-> <<65 + p>>,
                      params |-> [i \in ParamIdx |-> <<63, 0, 0, 0>>]]],
     chunk |-> <<1, 2>>, bankChunk |-> <<3>>]

\* VST2Plugin::setProgram, setParameter, setProgramName on a backend f. A
\* parameter index the plugin does not have is taken to be ignored by it.
FxSetProgram(f, program) ==
    IF program >= 0 /\ program < NumPrograms THEN [f EXCEPT !.program = program] ELSE f
FxSetParameter(f, index, value) ==
    IF index \in ParamIdx THEN [f EXCEPT !.programs[f.program].params[index] = value] ELSE f
FxSetProgramName(f, name) == [f EXCEPT !.programs[f.program].name = name]
FxProgramName(f) == f.programs[f.program].name
FxParameter(f, index) == f.programs[f.program].params[index]

\* no operation on the backend yet
NoOp ==
    [op |-> "none", form |-> "none", declared |-> 0, body |-> 0, bad |-> FALSE,
     result |-> FALSE, changed |-> FALSE]

\* the threads that call the PluginManager, the one key and the one path
\* they use, and no thread
MgrThreads == {"main", "worker"}
MgrKey == "key"
MgrPath == "path"
NoThread == "none"

\* the member functions that take WriteLock lock(mutex_), the ones that take
\* ReadLock lock(mutex_), and the ones that change factories_, plugins_ or
\* exceptions_
MgrWriteLocked == {"addFactory", "addException", "addPlugin", "clear", "readPlugin", "write"}
MgrReadLocked == {"findFactory", "isException", "findPlugin", "read"}
MgrMutators == {"addFactory", "addException", "addPlugin", "clear", "readPlugin", "read"}

\* a PluginManager after construction
NewManager ==
    [writer |-> NoThread, readers |-> {}, pc |-> [t \in MgrThreads |-> "idle"],
     factories |-> {}, plugins |-> {}, exceptions |-> {}]

\* the three queues of the t_vsteditor (e_automated, e_midi, e_sysex), in
\* the order tick() outputs them, and no event
EventKinds == <<"param_automated", "midi", "sysex">>
NoEvent == [id |-> 0, kind |-> "none"]

\* a t_vsteditor after construction: no plugin, no window, empty queues, the
\* clock not set, nobody in post_event or tick
NewEditor ==
    [open |-> FALSE, window |-> FALSE, mutex |-> NoThread, sys |-> NoThread,
     clock |-> FALSE, gui |-> "idle", guiEv |-> NoEvent, main |-> "idle",
     queue |-> [k \in {EventKinds[i] : i \in 1..3} |-> << >>],
     swapped |-> << >>, out |-> << >>, posted |-> 0, gaveUp |-> FALSE]

\* no setn unit command yet
NoSetn == [index |-> 0, count |-> 0, values |-> << >>, set |-> << >>]

\* the unit after its constructor
InitUnit ==
    /\ plugin_ = Null
    /\ window_ = Null
    /\ thread_ = Null
    /\ isLoading_ = FALSE
    /\ nrtQueue = << >>
    /\ nrtCur = << >>
    /\ rtQueue = << >>
    /\ nSubmitted = 0
    /\ nOpens = 0
    /\ nrtDone = 0
    /\ rtDone = 0
    /\ rtPc = "idle"
    /\ mutex_ = "free"
    /\ guiPc = "idle"
    /\ guiEv = << >>
    /\ paramQueue_ = << >>
    /\ pushed = << >>
    /\ delivered = << >>
    /\ bypass_ = FALSE
    /\ capacity = 0
    /\ queueBytes = 0
    /\ plugins = [p \in PluginIds |-> NoPlugin]
    /\ lastReset = "none"
    /\ openReplies = << >>
    /\ log = ""
    /\ lastClose = <<0, FALSE>>
    /\ fault = "none"
    /\ paramStates_ = NoStates
    /\ block = [calls |-> {}, bus |-> 0, in |-> << >>, changed |-> FALSE]
    /\ unmapped = {}
    /\ paramReplies = << >>
    /\ dataRT_ = << >>
    /\ dataSize_ = 0
    /\ dataReceived_ = 0
    /\ upload = NoUpload
    /\ dataNRT_ = << >>
    /\ dataSent_ = 0
    /\ doneQueue = << >>
    /\ freed = {}
    /\ dataReplies = << >>
    /\ rtMsgs = << >>
    /\ callbacks = << >>
    /\ midiOut = << >>
    /\ lastSetn = NoSetn
    /\ unitFreed = FALSE
    /\ manager = NewManager
    /\ vsteditor = NewEditor

\* the state after construction, in a little-endian build
Init ==
    /\ InitUnit
    /\ bigEndian = FALSE
    /\ fx = NewFx(FALSE)
    /\ fxBuffer = << >>
    /\ fxOp = NoOp
    /\ ioLog = << >>

\* the state after construction in either build, with a backend of either kind
InitCodec ==
    /\ InitUnit
    /\ bigEndian \in BOOLEAN
    /\ fx \in {NewFx(chunks) : chunks \in BOOLEAN}
    /\ fxBuffer = << >>
    /\ fxOp = NoOp
    /\ ioLog = << >>

\* the audio thread is between two blocks and the process has not crashed
RtIdle == rtPc = "idle" /\ fault = "none"

(* --------------------- VSTPlugin: audio-thread side -------------------- *)
\* a close() that would submit the Close command and keep its own plugin_
closeResultKeepsPlugin(alloc) ==
    IF plugin_ # Null /\ alloc
    THEN [plugin_ |-> plugin_, window_ |-> Null, thread_ |-> Null,
          nrtQueue |-> doCmd(nrtQueue,
                        [CmdData("Close", nSubmitted + 1) EXCEPT
                            !.plugin = plugin_, !.window = window_, !.thread = thread_]),
          nSubmitted |-> nSubmitted + 1,
          log |-> log]
    ELSE [plugin_ |-> plugin_, window_ |-> window_, thread_ |-> thread_,
          nrtQueue |-> nrtQueue, nSubmitted |-> nSubmitted,
          log |-> IF plugin_ # Null THEN "RTAlloc failed!" ELSE log]

\* a close() that would clear its fields and leave the editor window and the
\* GUI thread out of the Close command
closeResultDropsWindow(alloc) ==
    IF plugin_ # Null /\ alloc
    THEN [plugin_ |-> Null, window_ |-> Null, thread_ |-> Null,
          nrtQueue |-> doCmd(nrtQueue,
                        [CmdData("Close", nSubmitted + 1) EXCEPT !.plugin = plugin_]),
          nSubmitted |-> nSubmitted + 1,
          log |-> log]
    ELSE [plugin_ |-> plugin_, window_ |-> window_, thread_ |-> thread_,
          nrtQueue |-> nrtQueue, nSubmitted |-> nSubmitted,
          log |-> IF plugin_ # Null THEN "RTAlloc failed!" ELSE log]

\* VSTPlugin::close(): the fields it may change, as a record.
\* alloc: whether makeCmdData (RTAlloc) succeeds.
closeResult(alloc) ==
    IF plugin_ # Null /\ alloc
    THEN [plugin_ |-> Null, window_ |-> Null, thread_ |-> Null,
          nrtQueue |-> doCmd(nrtQueue,
                        [CmdData("Close", nSubmitted + 1) EXCEPT
                            !.plugin = plugin_, !.window = window_, !.thread = thread_]),
          nSubmitted |-> nSubmitted + 1,
          log |-> log]
    ELSE [plugin_ |-> plugin_, window_ |-> window_, thread_ |-> thread_,
          nrtQueue |-> nrtQueue, nSubmitted |-> nSubmitted,
          log |-> IF plugin_ # Null THEN "RTAlloc failed!" ELSE log]

\* the close unit command: VSTPlugin::close()
close(alloc) ==
    /\ UNCHANGED extVars
    /\ RtIdle
    /\ nSubmitted < MaxCmds
    /\ LET r == closeResult(alloc) IN
        /\ plugin_' = r.plugin_
        /\ window_' = r.window_
        /\ thread_' = r.thread_
        /\ nrtQueue' = r.nrtQueue
        /\ nSubmitted' = r.nSubmitted
        /\ log' = r.log
    /\ lastClose' = IF plugin_ = Null \/ alloc THEN <<nOpens, isLoading_>> ELSE lastClose
    /\ UNCHANGED <<isLoading_, nrtCur, rtQueue, nOpens, nrtDone, rtDone, rtPc, inboxVars,
                   syncVars, plugins, lastReset, openReplies, fault>>

\* VSTPlugin::~VSTPlugin: close(), then the buffers and the parameter table
\* go back to the realtime allocator and the engine frees the unit. The
\* commands in flight keep their pointer to it. alloc: whether the
\* makeCmdData of close() succeeds.
destroyUnit(alloc) ==
    /\ RtIdle
    /\ ~unitFreed
    /\ nSubmitted < MaxCmds
    /\ LET r == closeResult(alloc) IN
        /\ plugin_' = r.plugin_
        /\ window_' = r.window_
        /\ thread_' = r.thread_
        /\ nrtQueue' = r.nrtQueue
        /\ nSubmitted' = r.nSubmitted
        /\ log' = r.log
    /\ lastClose' = IF plugin_ = Null \/ alloc THEN <<nOpens, isLoading_>> ELSE lastClose
    /\ paramStates_' = NoStates
    /\ unitFreed' = TRUE
    /\ UNCHANGED <<isLoading_, nrtCur, rtQueue, nOpens, nrtDone, rtDone, rtPc, inboxVars,
                   syncVars, plugins, lastReset, openReplies, fault, block, unmapped,
                   paramReplies, dataVars, cbVars, codecVars, lastSetn, manager, vsteditor>>

\* an open() that would not look at isLoading_
alreadyLoadingIgnored == FALSE

\* the first check of open(): if (isLoading_) { LOG_WARNING; return; }
alreadyLoading == isLoading_

\* VSTPlugin::open(path, gui). allocClose, allocOpen: whether the
\* makeCmdData of close() and the one of open() succeed.
open(gui, allocClose, allocOpen) ==
    /\ UNCHANGED extVars
    /\ RtIdle
    /\ nSubmitted + 1 < MaxCmds
    /\ nOpens < MaxOpens
    /\ UNCHANGED <<nrtCur, rtQueue, nrtDone, rtDone, rtPc, inboxVars, syncVars, plugins,
                   lastReset, openReplies, lastClose, fault>>
    /\ IF alreadyLoading
       THEN /\ log' = "already loading!"
            /\ UNCHANGED <<plugin_, window_, thread_, isLoading_, nrtQueue, nSubmitted, nOpens>>
       ELSE LET r == closeResult(allocClose) IN
            /\ plugin_' = r.plugin_
            /\ window_' = r.window_
            /\ thread_' = r.thread_
            /\ IF r.plugin_ # Null
               THEN /\ log' = "couldn't close current plugin!"
                    /\ nrtQueue' = r.nrtQueue
                    /\ nSubmitted' = r.nSubmitted
                    /\ UNCHANGED <<isLoading_, nOpens>>
               ELSE IF allocOpen
               THEN /\ nrtQueue' = doCmd(r.nrtQueue,
                                     [CmdData("Open", r.nSubmitted + 1) EXCEPT
                                         !.value = IF gui THEN 1 ELSE 0,
                                         !.id = nOpens + 1])
                    /\ nSubmitted' = r.nSubmitted + 1
                    /\ nOpens' = nOpens + 1
                    /\ isLoading_' = TRUE
                    /\ log' = r.log
               ELSE /\ nrtQueue' = r.nrtQueue
                    /\ nSubmitted' = r.nSubmitted
                    /\ log' = "RTAlloc failed!"
                    /\ UNCHANGED <<isLoading_, nOpens>>

\* VSTPlugin::setParam(index, value). alloc: whether RTAlloc succeeds.
setParam(index, value, alloc) ==
    /\ UNCHANGED extVars
    /\ RtIdle
    /\ nSubmitted < MaxCmds
    /\ UNCHANGED <<instVars, nrtCur, rtQueue, nOpens, nrtDone, rtDone, rtPc, inboxVars,
                   syncVars, plugins, lastReset, openReplies, lastClose, fault>>
    /\ IF plugin_ = Null
       THEN /\ log' = "VSTPlugin: no plugin!"
            /\ UNCHANGED <<nrtQueue, nSubmitted>>
       ELSE IF ~(index >= 0 /\ index < NumParams)
       THEN /\ log' = "parameter index out of range!"
            /\ UNCHANGED <<nrtQueue, nSubmitted>>
       ELSE IF alloc
       THEN /\ nrtQueue' = doCmd(nrtQueue, [CmdData("SetParam", nSubmitted + 1) EXCEPT
                                              !.index = index, !.value = value])
            /\ nSubmitted' = nSubmitted + 1
            /\ UNCHANGED log
       ELSE /\ log' = "RTAlloc failed!"
            /\ UNCHANGED <<nrtQueue, nSubmitted>>

\* VSTPlugin::reset(async). alloc: whether makeCmdData succeeds.
reset(async, alloc) ==
    /\ UNCHANGED extVars
    /\ RtIdle
    /\ nSubmitted < MaxCmds
    /\ UNCHANGED <<instVars, nrtCur, rtQueue, nOpens, nrtDone, rtDone, rtPc, inboxVars,
                   syncVars, plugins, openReplies, lastClose, fault>>
    /\ IF plugin_ = Null
       THEN /\ log' = "VSTPlugin: no plugin!"
            /\ UNCHANGED <<nrtQueue, nSubmitted, lastReset>>
       ELSE IF async
       THEN IF alloc
            THEN /\ nrtQueue' = doCmd(nrtQueue, CmdData("Reset", nSubmitted + 1))
                 /\ nSubmitted' = nSubmitted + 1
                 /\ UNCHANGED <<log, lastReset>>
            ELSE /\ log' = "RTAlloc failed!"
                 /\ UNCHANGED <<nrtQueue, nSubmitted, lastReset>>
       ELSE /\ lastReset' = "reset"
            /\ UNCHANGED <<nrtQueue, nSubmitted, log>>

(* ------------------------ VSTPlugin: worker side ----------------------- *)
\* the stage-2 functions that act on data->owner->plugin()
UsesOwnerPlugin(kind) ==
    kind \in {"SetParam", "Reset", "SetProgramData", "SetBankData", "GetProgramData",
              "SetProgram", "ReadProgram", "ReadBank", "WriteProgram", "WriteBank"}

\* The worker takes the oldest command and enters its stage 2; a stage that
\* acts on the owner's plugin reads owner->plugin() here.
NrtBegin ==
    /\ UNCHANGED extVars
    /\ fault = "none"
    /\ nrtCur = << >>
    /\ nrtQueue # << >>
    /\ LET c == Head(nrtQueue) IN
        nrtCur' = << IF UsesOwnerPlugin(c.kind) THEN [c EXCEPT !.target = plugin_] ELSE c >>
    /\ nrtQueue' = Tail(nrtQueue)
    /\ UNCHANGED <<instVars, rtQueue, nSubmitted, nOpens, nrtDone, rtDone, rtPc, inboxVars,
                   syncVars, plugins, lastReset, openReplies, log, lastClose, fault>>

\* the end of a stage 2: the command goes to the FIFO back to the audio thread
NrtDone(c) ==
    /\ nrtCur' = << >>
    /\ rtQueue' = Append(rtQueue, c)
    /\ nrtDone' = c.seq

\* cmdOpen with VSTPluginCmdData::tryOpen and threadFunction.
\* loadOk: loadVSTPlugin returns a plugin; editor: the plugin has an editor
\* and VSTWindowFactory::create returns a window.
cmdOpen(loadOk, editor) ==
    /\ UNCHANGED extVars
    /\ fault = "none"
    /\ nrtCur # << >>
    /\ nrtCur[1].kind = "Open"
    /\ LET c == nrtCur[1]
           p == c.id
           gui == c.value = 1
           win == gui /\ loadOk /\ editor
           d == [c EXCEPT !.plugin = IF loadOk THEN p ELSE Null,
                          !.window = IF win THEN p ELSE Null,
                          !.thread = IF win THEN p ELSE Null]
       IN /\ NrtDone(d)
          /\ IF loadOk
             THEN plugins' = [plugins EXCEPT ![p] =
                     [NoPlugin EXCEPT !.state = "live",
                                      !.createdOn = IF gui THEN "gui" ELSE "nrt",
                                      !.loop = win,
                                      !.window = IF win THEN "live" ELSE "none",
                                      !.windowCreatedOn = IF win THEN "gui" ELSE "none"]]
             ELSE UNCHANGED plugins
    /\ UNCHANGED <<instVars, nrtQueue, nSubmitted, nOpens, rtDone, rtPc, inboxVars,
                   syncVars, lastReset, openReplies, log, lastClose, fault>>

\* cmdClose, VSTPluginCmdData::close. With a window the message loop is
\* told to quit and the GUI thread, which leaves parameterAutomated first,
\* releases the plugin before the join returns; threadFunction's own
\* shared_ptr to the window is gone by then, and "window = nullptr" drops the
\* last one on the worker.
cmdClose ==
    /\ UNCHANGED extVars
    /\ fault = "none"
    /\ nrtCur # << >>
    /\ nrtCur[1].kind = "Close"
    /\ LET c == nrtCur[1]
           p == c.plugin
       IN /\ IF p = Null
             THEN UNCHANGED plugins
             ELSE IF c.window # Null
             THEN /\ guiPc = "idle"
                  /\ plugins' = [plugins EXCEPT ![p].state = "freed", ![p].freedOn = "gui",
                                                ![p].frees = @ + 1, ![p].loop = FALSE,
                                                ![p].window = "destroyed",
                                                ![p].windowDestroyedOn = "nrt"]
             ELSE plugins' = [plugins EXCEPT ![p].state = "freed", ![p].freedOn = "nrt",
                                             ![p].frees = @ + 1]
          /\ NrtDone([c EXCEPT !.window = Null, !.thread = Null])
    /\ UNCHANGED <<instVars, nrtQueue, nSubmitted, nOpens, rtDone, rtPc, inboxVars,
                   syncVars, lastReset, openReplies, log, lastClose, fault>>

\* cmdSetParam: data->owner->plugin()->setParameter(index, value)
cmdSetParam ==
    /\ UNCHANGED extVars
    /\ fault = "none"
    /\ nrtCur # << >>
    /\ nrtCur[1].kind = "SetParam"
    /\ LET c == nrtCur[1] IN
        IF c.target = Null
        THEN /\ fault' = "null plugin in cmdSetParam"
             /\ UNCHANGED <<plugins, nrtCur, rtQueue, nrtDone>>
        ELSE /\ plugins' = [plugins EXCEPT ![c.target].param[c.index] = c.value]
             /\ NrtDone(c)
             /\ UNCHANGED fault
    /\ UNCHANGED <<instVars, nrtQueue, nSubmitted, nOpens, rtDone, rtPc, inboxVars,
                   syncVars, lastReset, openReplies, log, lastClose>>

\* cmdReset: data->owner->plugin()->suspend(); ...->resume()
cmdReset ==
    /\ UNCHANGED extVars
    /\ fault = "none"
    /\ nrtCur # << >>
    /\ nrtCur[1].kind = "Reset"
    /\ LET c == nrtCur[1] IN
        IF c.target = Null
        THEN /\ fault' = "null plugin in cmdReset"
             /\ UNCHANGED <<lastReset, nrtCur, rtQueue, nrtDone>>
        ELSE /\ lastReset' = "reset"
             /\ NrtDone(c)
             /\ UNCHANGED fault
    /\ UNCHANGED <<instVars, nrtQueue, nSubmitted, nOpens, rtDone, rtPc, inboxVars,
                   syncVars, plugins, openReplies, log, lastClose>>

\* the stages that read or write the instance through the owner pointer of
\* their command: on the worker all that call owner->plugin() (cmdOpen only
\* reads the owner's sample rate and channel counts, once it has a plugin);
\* on the audio thread all that have a stage there
WorkerStageUsesOwner == nrtCur # << >> /\ UsesOwnerPlugin(nrtCur[1].kind)
\* the step in which cmdOpen has loaded a plugin and configures it from the owner
cmdOpenReadsOwner ==
    /\ nrtCur # << >>
    /\ nrtCur[1].kind = "Open"
    /\ nrtCur' = << >>
    /\ rtQueue'[Len(rtQueue')].plugin # Null
RtStageUsesOwner == rtQueue # << >> /\ Head(rtQueue).kind \notin {"Close", "Reset"}

\* a stage that uses the owner after ~VSTPlugin reads and writes memory that
\* was given back: it goes on as the other actions say when the memory still
\* holds the instance, and the process crashes here when it does not
stageOnFreedUnit ==
    /\ unitFreed
    /\ fault = "none"
    /\ WorkerStageUsesOwner \/ RtStageUsesOwner
    /\ fault' = "stage on a destroyed VSTPlugin"
    /\ UNCHANGED <<instVars, queueVars, rtPc, inboxVars, syncVars, plugins, lastReset,
                   openReplies, log, lastClose, extVars>>

(* ------------------ VSTPlugin: stage 3 on the audio thread ------------- *)
\* the audio thread takes the oldest command whose stage 2 is done
RtTake(kind) ==
    /\ RtIdle
    /\ rtQueue # << >>
    /\ Head(rtQueue).kind = kind
    /\ rtQueue' = Tail(rtQueue)
    /\ rtDone' = Head(rtQueue).seq

\* a doneOpen that would leave isLoading_ as it is
doneOpenLoadingKept(cmd) == isLoading_

\* a doneOpen that would clear isLoading_ only when the Open produced a plugin
doneOpenLoadingOnSuccess(cmd) == cmd.plugin = Null

\* the first statement of doneOpen, whatever the Open produced: isLoading_ = false
doneOpenLoading(cmd) == FALSE

\* the parameter slots of a plugin that was just opened
NewParamStates == [i \in ParamIdx |-> [value |-> NaN, bus |-> NoBus]]

\* cmdOpenDone, VSTPlugin::doneOpen. alloc: whether the RTRealloc of
\* paramStates_ succeeds.
doneOpen(alloc) ==
    /\ UNCHANGED <<block, paramReplies, dataVars, cbVars, codecVars, sideVars>>
    /\ RtTake("Open")
    /\ LET cmd == Head(rtQueue) IN
        /\ isLoading_' = doneOpenLoading(cmd)
        /\ plugin_' = cmd.plugin
        /\ window_' = cmd.window
        /\ thread_' = cmd.thread
        /\ IF cmd.plugin # Null
           THEN /\ plugins' = [plugins EXCEPT ![cmd.plugin].listener = TRUE]
                /\ paramStates_' = IF alloc THEN NewParamStates ELSE NoStates
                /\ unmapped' = {}
                /\ openReplies' = Append(openReplies,
                                         <<1, IF cmd.window # Null THEN 1 ELSE 0>>)
                /\ log' = IF alloc THEN log ELSE "RTRealloc failed!"
           ELSE /\ log' = "VSTPlugin: couldn't load"
                /\ openReplies' = Append(openReplies, <<0>>)
                /\ UNCHANGED <<plugins, paramStates_, unmapped>>
    /\ UNCHANGED <<nrtQueue, nrtCur, nSubmitted, nOpens, nrtDone, rtPc, inboxVars, syncVars,
                   lastReset, lastClose, fault>>

\* a setParamDone that would leave the bus of the slot as it is
setParamDoneSlotKeepsBus(index) ==
    [value |-> plugins[plugin_].param[index], bus |-> paramStates_[index].bus]

\* the slot setParamDone writes:
\*   paramStates_[index].value = plugin_->getParameter(index);
\*   paramStates_[index].bus = -1;
setParamDoneSlot(index) ==
    [value |-> plugins[plugin_].param[index], bus |-> NoBus]

\* cmdSetParamDone, VSTPlugin::setParamDone: the slot, then sendParameter(index)
setParamDone ==
    /\ UNCHANGED <<block, dataVars, cbVars, codecVars, sideVars>>
    /\ RtTake("SetParam")
    /\ LET index == Head(rtQueue).index IN
       IF plugin_ = Null
       THEN /\ fault' = "null plugin in setParamDone"
            /\ UNCHANGED <<paramStates_, unmapped, paramReplies>>
       ELSE IF paramStates_ = NoStates
       THEN /\ fault' = "null paramStates_ in setParamDone"
            /\ UNCHANGED <<paramStates_, unmapped, paramReplies>>
       ELSE /\ paramStates_' = [paramStates_ EXCEPT ![index] = setParamDoneSlot(index)]
            /\ unmapped' = unmapped \ {index}
            /\ paramReplies' = Append(paramReplies, <<index, plugins[plugin_].param[index]>>)
            /\ UNCHANGED fault
    /\ UNCHANGED <<instVars, nrtQueue, nrtCur, nSubmitted, nOpens, nrtDone, rtPc, inboxVars,
                   syncVars, plugins, lastReset, openReplies, log, lastClose>>

\* Close and Reset have no stage 3: the command is only freed
rtFree ==
    /\ UNCHANGED extVars
    /\ \E kind \in {"Close", "Reset"} : RtTake(kind)
    /\ UNCHANGED <<instVars, nrtQueue, nrtCur, nSubmitted, nOpens, nrtDone, rtPc, inboxVars,
                   syncVars, plugins, lastReset, openReplies, log, lastClose, fault>>

(* --------------------------- VSTPlugin::next --------------------------- *)
\* parameter updates that would send the value of the bus in every block
updateParamsEveryBlock(ps, busValue, ctl) ==
    LET mapped == {i \in ParamIdx : ps[i].bus >= 0}
        ps1 == [i \in ParamIdx |->
                  IF i \in mapped THEN [ps[i] EXCEPT !.value = busValue] ELSE ps[i]]
    IN [ps |-> ps1, calls |-> {<<i, busValue, "bus">> : i \in mapped}]

\* parameter updates that would apply a parameter control only when the
\* slot holds no value yet
updateFromInputsOnce(ps, ctl, k) ==
    IF k > Len(ctl) THEN [ps |-> ps, calls |-> {}]
    ELSE LET index == ctl[k].index
             value == ctl[k].value
             hit == /\ index >= 0 /\ index < NumParams
                    /\ ps[index].bus < 0
                    /\ ps[index].value = NaN
         IN [ps |-> IF hit THEN [ps EXCEPT ![index].value = value] ELSE ps,
             calls |-> IF hit THEN {<<index, value, "in">>} ELSE {}]

\* The parameter updates of next(), from the slots ps:
\*   first every slot mapped to a bus takes the value of the bus when it
\*   differs from the slot's value, then every parameter control (index, value)
\*   in range whose slot is not mapped and differs from value is applied.
\* The result is [ps, calls]: the new slots and the setParameter calls made,
\* <<index, value, "bus" or "in">> each.
RECURSIVE updateFromInputs(_, _, _)
updateFromInputs(ps, ctl, k) ==
    IF k > Len(ctl) THEN [ps |-> ps, calls |-> {}]
    ELSE LET index == ctl[k].index
             value == ctl[k].value
             hit == /\ index >= 0 /\ index < NumParams
                    /\ ps[index].bus < 0
                    /\ FloatNe(ps[index].value, value)
             r == updateFromInputs(
                    IF hit THEN [ps EXCEPT ![index].value = value] ELSE ps, ctl, k + 1)
         IN [ps |-> r.ps,
             calls |-> r.calls \cup (IF hit THEN {<<index, value, "in">>} ELSE {})]

updateParams(ps, busValue, ctl) ==
    LET mapped == {i \in ParamIdx : ps[i].bus >= 0 /\ FloatNe(busValue, ps[i].value)}
        ps1 == [i \in ParamIdx |->
                  IF i \in mapped THEN [ps[i] EXCEPT !.value = busValue] ELSE ps[i]]
        r == updateFromInputs(ps1, ctl, 1)
    IN [ps |-> r.ps, calls |-> {<<i, busValue, "bus">> : i \in mapped} \cup r.calls]

\* next() enters; bypass is the input in0(0), busValue what readControlBus
\* gives, ctl the parameter control inputs (numParameterControls_ pairs of
\* index and value). With a plugin and bypass off it goes into the backend
\* section (parameter updates and plugin_->process()); else it copies the
\* inputs and returns. The reset on a bypass change is compiled out (#if 0).
nextProcess(bypass, busValue, ctl) ==
    /\ UNCHANGED <<unmapped, paramReplies, dataVars, cbVars, codecVars, sideVars>>
    /\ RtIdle
    /\ IF plugin_ # Null /\ ~bypass
       THEN /\ rtPc' = "process"
            /\ IF paramStates_ # NoStates
               THEN LET r == updateParams(paramStates_, busValue, ctl) IN
                    /\ paramStates_' = r.ps
                    /\ plugins' = [plugins EXCEPT ![plugin_].param =
                          [i \in ParamIdx |->
                             IF \E c \in r.calls : c[1] = i THEN r.ps[i].value ELSE @[i]]]
                    /\ block' = [calls |-> r.calls, bus |-> busValue, in |-> ctl,
                         changed |-> ctl # block.in]
               ELSE /\ block' = [calls |-> {}, bus |-> busValue, in |-> ctl,
                         changed |-> ctl # block.in]
                    /\ UNCHANGED <<paramStates_, plugins>>
       ELSE /\ block' = [calls |-> {}, bus |-> busValue, in |-> ctl,
                         changed |-> ctl # block.in]
            /\ UNCHANGED <<rtPc, paramStates_, plugins>>
    /\ UNCHANGED <<instVars, queueVars, inboxVars, syncVars, lastReset, openReplies,
                   log, lastClose, fault>>

\* VSTPlugin::mapParam(index, bus)
mapParam(index, bus) ==
    /\ UNCHANGED <<block, paramReplies, dataVars, cbVars, codecVars, sideVars>>
    /\ RtIdle
    /\ UNCHANGED <<instVars, queueVars, rtPc, inboxVars, syncVars, plugins, lastReset,
                   openReplies, lastClose>>
    /\ IF plugin_ = Null
       THEN /\ log' = "VSTPlugin: no plugin!"
            /\ UNCHANGED <<paramStates_, unmapped, fault>>
       ELSE IF ~(index >= 0 /\ index < NumParams)
       THEN /\ log' = "parameter index out of range!"
            /\ UNCHANGED <<paramStates_, unmapped, fault>>
       ELSE IF paramStates_ = NoStates
       THEN /\ fault' = "null paramStates_ in mapParam"
            /\ UNCHANGED <<paramStates_, unmapped, log>>
       ELSE /\ paramStates_' = [paramStates_ EXCEPT ![index].bus = bus]
            /\ unmapped' = unmapped \ {index}
            /\ UNCHANGED <<log, fault>>

\* VSTPlugin::unmapParam(index)
unmapParam(index) ==
    /\ UNCHANGED <<block, paramReplies, dataVars, cbVars, codecVars, sideVars>>
    /\ RtIdle
    /\ UNCHANGED <<instVars, queueVars, rtPc, inboxVars, syncVars, plugins, lastReset,
                   openReplies, lastClose>>
    /\ IF plugin_ = Null
       THEN /\ log' = "VSTPlugin: no plugin!"
            /\ UNCHANGED <<paramStates_, unmapped, fault>>
       ELSE IF ~(index >= 0 /\ index < NumParams)
       THEN /\ log' = "parameter index out of range!"
            /\ UNCHANGED <<paramStates_, unmapped, fault>>
       ELSE IF paramStates_ = NoStates
       THEN /\ fault' = "null paramStates_ in unmapParam"
            /\ UNCHANGED <<paramStates_, unmapped, log>>
       ELSE /\ paramStates_' = [paramStates_ EXCEPT ![index].bus = NoBus]
            /\ unmapped' = unmapped \cup {index}
            /\ UNCHANGED <<log, fault>>

\* process() has returned; the rest of next(): if (window_ && mutex_.try_lock())
\* swap the queue, unlock, parameterAutomated() for every event
nextDrain ==
    /\ UNCHANGED extVars
    /\ fault = "none"
    /\ rtPc = "process"
    /\ rtPc' = "idle"
    /\ IF window_ # Null /\ mutex_ = "free"
       THEN /\ paramQueue_' = << >>
            /\ delivered' = delivered \o paramQueue_
       ELSE UNCHANGED <<paramQueue_, delivered>>
    /\ UNCHANGED <<instVars, queueVars, mutex_, guiPc, guiEv, pushed, syncVars, plugins,
                   lastReset, openReplies, log, lastClose, fault>>

(* ----------------- VSTPluginListener on the GUI thread ----------------- *)
\* VSTPluginListener::parameterAutomated, called by the editor on the GUI
\* thread (neither rtThreadID_ nor nrtThreadID_): lock_guard(mutex_)
guiLock(index, value) ==
    /\ UNCHANGED extVars
    /\ fault = "none"
    /\ GuiPlugins # {}
    /\ guiPc = "idle"
    /\ mutex_ = "free"
    /\ Len(pushed) < MaxEvents
    /\ mutex_' = "gui"
    /\ guiPc' = "locked"
    /\ guiEv' = << [index |-> index, value |-> value] >>
    /\ UNCHANGED <<instVars, queueVars, rtPc, paramQueue_, pushed, delivered, syncVars,
                   plugins, lastReset, openReplies, log, lastClose, fault>>

\* paramQueue_.emplace_back(index, value) and the end of the lock_guard
guiPush ==
    /\ UNCHANGED extVars
    /\ fault = "none"
    /\ guiPc = "locked"
    /\ paramQueue_' = Append(paramQueue_, guiEv[1])
    /\ pushed' = Append(pushed, guiEv[1])
    /\ guiEv' = << >>
    /\ mutex_' = "free"
    /\ guiPc' = "idle"
    /\ UNCHANGED <<instVars, queueVars, rtPc, delivered, syncVars, plugins, lastReset,
                   openReplies, log, lastClose, fault>>

(* ------------- VSTPluginListener: callbacks of the plugin --------------- *)
\* The thread a callback runs on, as the listener tells it:
\* "rt" is rtThreadID_, "nrt" is nrtThreadID_, "gui" is neither.
\* The plugin can call back on the audio thread while next() is in process(),
\* on the worker while a command stage calls into it, and on the GUI thread
\* while its editor runs.
CanCallBack(thread) ==
    /\ fault = "none"
    /\ Len(callbacks) < MaxEvents
    /\ CASE thread = "rt" ->
                rtPc = "process" /\ plugin_ # Null /\ plugins[plugin_].listener
         [] thread = "nrt" ->
                /\ nrtCur # << >>
                /\ UsesOwnerPlugin(nrtCur[1].kind)
                /\ nrtCur[1].target # Null
                /\ plugins[nrtCur[1].target].listener
         [] OTHER -> GuiPlugins # {} /\ guiPc = "idle"

\* VSTPluginListener::parameterAutomated(index, value) on the audio thread
\* (the call of owner_->parameterAutomated is compiled out) or on the worker
\* (a FifoMsg to the audio thread). On the GUI thread: guiLock and guiPush.
listenerParameterAutomated(thread, index, value) ==
    /\ thread \in {"rt", "nrt"}
    /\ CanCallBack(thread)
    /\ callbacks' = Append(callbacks, [kind |-> "param", thread |-> thread,
                                       index |-> index, value |-> value])
    /\ rtMsgs' = IF thread = "nrt"
                 THEN Append(rtMsgs, [index |-> index, value |-> value])
                 ELSE rtMsgs
    /\ UNCHANGED <<instVars, queueVars, rtPc, inboxVars, syncVars, plugins, lastReset,
                   openReplies, log, lastClose, fault, paramVars, dataVars, midiOut,
                   codecVars, sideVars>>

\* the FifoMsg of parameterAutomated performed on the audio thread:
\* VSTPlugin::parameterAutomated, which is sendParameter (plugin_->getParameter)
\* and the /vst_auto reply
performParameterAutomated ==
    /\ RtIdle
    /\ rtMsgs # << >>
    /\ rtMsgs' = Tail(rtMsgs)
    /\ IF plugin_ = Null
       THEN fault' = "null plugin in sendParameter" /\ UNCHANGED delivered
       ELSE delivered' = Append(delivered, Head(rtMsgs)) /\ UNCHANGED fault
    /\ UNCHANGED <<instVars, queueVars, rtPc, mutex_, guiPc, guiEv, paramQueue_, pushed,
                   syncVars, plugins, lastReset, openReplies, log, lastClose, paramVars,
                   dataVars, callbacks, midiOut, codecVars, sideVars>>

\* VSTPluginListener::midiEvent and sysexEvent: on the audio thread
\* VSTPlugin::midiEvent / sysexEvent send /vst_midi / /vst_sysex; on any other
\* thread the event is ignored. alloc: whether the RTAlloc of sysexEvent
\* succeeds.
listenerMidiEvent(kind, thread, value, alloc) ==
    /\ kind \in {"midi", "sysex"}
    /\ CanCallBack(thread)
    /\ callbacks' = Append(callbacks, [kind |-> kind, thread |-> thread,
                                       index |-> 0, value |-> value])
    /\ IF thread = "rt"
       THEN IF kind = "midi" \/ alloc
            THEN midiOut' = Append(midiOut, <<kind, value>>) /\ UNCHANGED log
            ELSE log' = "RTAlloc failed!" /\ UNCHANGED midiOut
       ELSE UNCHANGED <<midiOut, log>>
    /\ UNCHANGED <<instVars, queueVars, rtPc, inboxVars, syncVars, plugins, lastReset,
                   openReplies, lastClose, fault, paramVars, dataVars, rtMsgs,
                   codecVars, sideVars>>

(* ------------------------ preset data: upload -------------------------- *)
\* every byte string of the given lengths
ByteSeqs(lens) == UNION {[1..n -> Bytes] : n \in lens}

Min(a, b) == IF a < b THEN a ELSE b

\* RTRealloc(mWorld, dataRT_, totalSize): the old bytes that fit are kept, the
\* rest of the block is not initialized
RTReallocBytes(buf, size) ==
    [k \in 1..size |-> IF k <= Len(buf) THEN buf[k] ELSE Uninit]

\* a copy that would put every packet at the start of the buffer
memcpyAtStart(buf, onset, data) ==
    [k \in 1..Len(buf) |-> IF k <= Len(data) THEN data[k] ELSE buf[k]]

\* memcpy(dataRT_ + onset, data, n)
memcpyAt(buf, onset, data) ==
    [k \in 1..Len(buf) |->
        IF k > onset /\ k <= onset + Len(data) THEN data[k - onset] ELSE buf[k]]

\* a copy that would take the whole packet, whatever is left of the buffer
copyLengthWhole(n, size, onset) == n

\* "if (n > (size - onset)) n = size - onset": the bytes sendData copies
copyLength(n, size, onset) == Min(n, size - onset)

\* an upload that would be finished by its first byte
sendDataFinishedEarly(received, size) == received > 0

\* "finished?": dataReceived_ >= size
sendDataFinished(received, size) == received >= size

\* VSTPlugin::sendData on the upload state st = [rt, size, received], with the
\* arguments of the packet; alloc: whether RTRealloc succeeds. The result is
\* the state sendData leaves, and what it did: whether the packet was copied,
\* with how many bytes, and whether the upload was finished. A packet that is
\* out of order is copied all the same, with a warning on the console.
sendDataResult(st, totalSize, onset, data, alloc) ==
    LET first == onset = 0
        st1 == IF first
               THEN IF alloc
                    THEN [rt |-> RTReallocBytes(st.rt, totalSize), size |-> totalSize,
                          received |-> 0]
                    ELSE [rt |-> st.rt, size |-> 0, received |-> 0]
               ELSE st
        none == [rt |-> st1.rt, size |-> st1.size, received |-> st1.received,
                 copied |-> FALSE, n |-> 0, finished |-> FALSE]
    IN IF first /\ ~alloc
       THEN none
       ELSE IF ~first /\ (onset < 0 \/ onset >= st.size)
       THEN none
       ELSE IF ~(st1.size > 0)
       THEN none
       ELSE LET n == copyLength(Len(data), st1.size, onset)
                received == st1.received + n
                finished == sendDataFinished(received, st1.size)
            IN [rt |-> memcpyAt(st1.rt, onset, SubSeq(data, 1, n)),
                size |-> st1.size,
                received |-> IF finished THEN 0 ELSE received,
                copied |-> TRUE, n |-> n, finished |-> finished]

\* what makeCmdData(dataRT_, size) can copy out of the buffer: a byte that was
\* never written reads as any byte
Payloads(buf, size) ==
    {p \in [1..size -> Bytes] : \A k \in 1..size : buf[k] # Uninit => p[k] = buf[k]}

\* the history of the upload after a packet: an upload begins with its packet
\* with onset 0 and stays in order while every packet begins where the bytes
\* received so far end
uploadAfter(r, totalSize, onset, data, submitted, alloc, allocCmd) ==
    IF onset = 0
    THEN IF alloc /\ r.copied
         THEN [total |-> totalSize, bytes |-> SubSeq(data, 1, r.n), inOrder |-> TRUE,
               packets |-> 1, cmds |-> IF submitted THEN 1 ELSE 0,
               dropped |-> r.finished /\ ~allocCmd]
         ELSE NoUpload
    ELSE IF upload.inOrder /\ r.copied /\ onset = Len(upload.bytes)
                           /\ Len(upload.bytes) < upload.total
         THEN [upload EXCEPT !.bytes = @ \o SubSeq(data, 1, r.n),
                             !.packets = @ + 1,
                             !.cmds = IF submitted THEN @ + 1 ELSE @,
                             !.dropped = r.finished /\ ~allocCmd]
         ELSE NoUpload

\* VSTPlugin::sendData(totalSize, onset, data, n, bank), called by
\* vst_program_data_set and vst_bank_data_set with the n > 0 bytes of one
\* packet. alloc: whether RTRealloc succeeds; allocCmd: whether makeCmdData does.
sendData(totalSize, onset, data, bank, alloc, allocCmd) ==
    /\ RtIdle
    /\ nSubmitted < MaxCmds
    /\ LET r == sendDataResult([rt |-> dataRT_, size |-> dataSize_,
                                received |-> dataReceived_],
                               totalSize, onset, data, alloc)
           submitted == r.finished /\ allocCmd
       IN /\ dataRT_' = r.rt
          /\ dataSize_' = r.size
          /\ dataReceived_' = r.received
          /\ upload' = uploadAfter(r, totalSize, onset, data, submitted, alloc, allocCmd)
          /\ log' = IF r.finished /\ ~allocCmd THEN "RTAlloc failed!" ELSE log
          /\ IF submitted
             THEN /\ \E payload \in Payloads(r.rt, r.size) :
                        nrtQueue' = doCmd(nrtQueue,
                            [CmdData(IF bank THEN "SetBankData" ELSE "SetProgramData",
                                     nSubmitted + 1)
                                EXCEPT !.buf = payload, !.size = r.size])
                  /\ nSubmitted' = nSubmitted + 1
             ELSE UNCHANGED <<nrtQueue, nSubmitted>>
    /\ UNCHANGED <<instVars, nrtCur, rtQueue, nOpens, nrtDone, rtDone, rtPc, inboxVars,
                   syncVars, plugins, lastReset, openReplies, lastClose, fault, paramVars,
                   dataNRT_, dataSent_, doneQueue, freed, dataReplies, cbVars, codecVars, sideVars>>

\* cmdSetProgramData / cmdSetBankData (stage 2 on the worker):
\* data->value = plugin()->readProgramData(data->buf, data->size).
\* ok: whether the plugin accepts the data.
cmdSetData(ok) ==
    /\ fault = "none"
    /\ nrtCur # << >>
    /\ nrtCur[1].kind \in {"SetProgramData", "SetBankData"}
    /\ LET c == nrtCur[1] IN
        IF c.target = Null \/ plugins[c.target].state # "live"
        THEN /\ fault' = "cmdSetProgramData on a missing plugin"
             /\ UNCHANGED <<nrtCur, rtQueue, nrtDone, plugins>>
        ELSE /\ plugins' = IF ok THEN [plugins EXCEPT ![c.target].data = c.buf]
                           ELSE plugins
             /\ NrtDone([c EXCEPT !.value = IF ok THEN 1 ELSE 0, !.stages = 1])
             /\ UNCHANGED fault
    /\ UNCHANGED <<instVars, nrtQueue, nSubmitted, nOpens, rtDone, rtPc, inboxVars, syncVars,
                   lastReset, openReplies, log, lastClose, extVars>>

\* the memory of the commands cmdRTfree gave back
FreedSeqs == {f.seq : f \in freed}

\* a reply of a preset command, built from the command on the audio thread
DataReply(c, addr, args) ==
    [addr |-> addr, seq |-> c.seq, args |-> args, live |-> c.seq \notin FreedSeqs]

\* cmdProgramDone / cmdBankDone (stage 3 on the audio thread, of the commands
\* that read a preset from data or from a file): the reply /vst_program_read
\* or /vst_bank_read with data->value, then sendCurrentProgramName
\* (/vst_program with the index and the name of the current program) or
\* /vst_program_index, both read from plugin_
cmdDataDone ==
    /\ \E kind \in {"SetProgramData", "SetBankData", "ReadProgram", "ReadBank"} : RtTake(kind)
    /\ LET c == Head(rtQueue)
           bank == c.kind \in {"SetBankData", "ReadBank"}
       IN IF plugin_ = Null
          THEN /\ fault' = "null plugin in cmdProgramDone"
               /\ dataReplies' = Append(dataReplies,
                     DataReply(c, IF bank THEN "/vst_bank_read" ELSE "/vst_program_read",
                               <<c.value>>))
               /\ UNCHANGED doneQueue
          ELSE /\ dataReplies' = dataReplies \o
                     << DataReply(c, IF bank THEN "/vst_bank_read" ELSE "/vst_program_read",
                                  <<c.value>>),
                        IF bank
                        THEN DataReply(c, "/vst_program_index", <<fx.program>>)
                        ELSE DataReply(c, "/vst_program", <<fx.program, FxProgramName(fx)>>) >>
               /\ doneQueue' = Append(doneQueue,
                     [seq |-> c.seq, stages |-> c.stages + 1, destroyed |-> FALSE])
               /\ UNCHANGED fault
    /\ UNCHANGED <<instVars, nrtQueue, nrtCur, nSubmitted, nOpens, nrtDone, rtPc, inboxVars,
                   syncVars, plugins, lastReset, openReplies, log, lastClose,
                   paramVars, dataRT_, dataSize_, dataReceived_, upload, dataNRT_, dataSent_,
                   freed, cbVars, codecVars, sideVars>>

(* ----------------------- preset data: download ------------------------- *)
\* VSTPlugin::receiveProgramData(count): the client asks for packet number
\* count of the preset. alloc: whether makeCmdData succeeds.
receiveProgramData(count, alloc) ==
    /\ RtIdle
    /\ nSubmitted < MaxCmds
    /\ IF plugin_ = Null
       THEN /\ log' = "VSTPlugin: no plugin!"
            /\ UNCHANGED <<nrtQueue, nSubmitted>>
       ELSE IF alloc
       THEN /\ nrtQueue' = doCmd(nrtQueue,
                  [CmdData("GetProgramData", nSubmitted + 1) EXCEPT
                      !.value = count, !.size = MaxPacket + 3])
            /\ nSubmitted' = nSubmitted + 1
            /\ UNCHANGED log
       ELSE /\ log' = "RTAlloc failed!"
            /\ UNCHANGED <<nrtQueue, nSubmitted>>
    /\ UNCHANGED <<instVars, nrtCur, rtQueue, nOpens, nrtDone, rtDone, rtPc, inboxVars,
                   syncVars, plugins, lastReset, openReplies, lastClose, fault, extVars>>

\* a packet that would take all the bytes that remain
packetSizeWhole(remaining, maxArgs) == remaining

\* std::min<int>(remaining, maxArgs - 3): the bytes of one packet, leaving
\* space for the three header arguments
packetSize(remaining, maxArgs) == Min(remaining, maxArgs - 3)

\* a cmdGetData that would return false, so that the engine skips stage 3
cmdGetDataFails == FALSE

\* the "return true" that ends cmdGetData
cmdGetDataReturns == TRUE

\* VSTPlugin::cmdGetData (stage 2 on the worker). written: the bytes
\* plugin()->writeProgramData puts into dataNRT_, the plugin's preset.
\* The engine runs stage 3 only when stage 2 returned true; otherwise the
\* command goes straight to stage 4.
cmdGetData(written) ==
    /\ fault = "none"
    /\ nrtCur # << >>
    /\ nrtCur[1].kind = "GetProgramData"
    /\ LET c == nrtCur[1]
           first == c.value = 0
       IN IF first /\ (c.target = Null \/ plugins[c.target].state # "live")
          THEN /\ fault' = "cmdGetData on a missing plugin"
               /\ UNCHANGED <<nrtCur, rtQueue, nrtDone, dataNRT_, dataSent_, doneQueue>>
          ELSE /\ first /\ plugins[c.target].data # << >> => written = plugins[c.target].data
               /\ ~first => written = << >>
               /\ LET buffer == IF first THEN written ELSE dataNRT_
                      onset == IF first THEN 0 ELSE dataSent_
                      remaining == Len(buffer) - onset
                      size == packetSize(remaining, c.size)
                      c1 == IF remaining > 0
                            THEN [c EXCEPT
                                    !.buf = <<Len(buffer), onset, size>>
                                            \o SubSeq(buffer, onset + 1, onset + size),
                                    !.size = size + 3, !.stages = 1]
                            ELSE [c EXCEPT !.size = 0, !.stages = 1]
                  IN /\ dataNRT_' = IF remaining > 0 THEN buffer ELSE << >>
                     /\ dataSent_' = IF remaining > 0 THEN onset + size ELSE 0
                     /\ IF cmdGetDataReturns
                        THEN NrtDone(c1) /\ UNCHANGED doneQueue
                        ELSE /\ nrtCur' = << >>
                             /\ nrtDone' = c.seq
                             /\ doneQueue' = Append(doneQueue,
                                   [seq |-> c.seq, stages |-> 1, destroyed |-> FALSE])
                             /\ UNCHANGED rtQueue
               /\ UNCHANGED fault
    /\ UNCHANGED <<instVars, nrtQueue, nSubmitted, nOpens, rtDone, rtPc, inboxVars, syncVars,
                   plugins, lastReset, openReplies, log, lastClose, paramVars, dataRT_,
                   dataSize_, dataReceived_, upload, freed, dataReplies, cbVars, codecVars, sideVars>>

\* VSTPlugin::cmdGetDataDone (stage 3 on the audio thread): when the packet
\* is not empty, the reply /vst_program_data with the floats of data->buf
cmdGetDataDone ==
    /\ RtTake("GetProgramData")
    /\ LET c == Head(rtQueue) IN
        /\ dataReplies' = IF c.size > 0
                          THEN Append(dataReplies,
                                 [addr |-> "/vst_program_data", seq |-> c.seq,
                                  args |-> c.buf, live |-> c.seq \notin FreedSeqs])
                          ELSE dataReplies
        /\ doneQueue' = Append(doneQueue,
              [seq |-> c.seq, stages |-> c.stages + 1, destroyed |-> FALSE])
    /\ UNCHANGED <<instVars, nrtQueue, nrtCur, nSubmitted, nOpens, nrtDone, rtPc, inboxVars,
                   syncVars, plugins, lastReset, openReplies, log, lastClose, fault,
                   paramVars, dataRT_, dataSize_, dataReceived_, upload, dataNRT_, dataSent_,
                   freed, cbVars, codecVars, sideVars>>

\* cmdNRTfree<T> (stage 4 on the worker): the destructor of the command
cmdNRTfree ==
    /\ fault = "none"
    /\ \E k \in DOMAIN doneQueue :
        /\ ~doneQueue[k].destroyed
        /\ \A j \in 1..(k - 1) : doneQueue[j].destroyed
        /\ doneQueue' = [doneQueue EXCEPT ![k].destroyed = TRUE]
    /\ UNCHANGED <<instVars, queueVars, rtPc, inboxVars, syncVars, plugins, lastReset,
                   openReplies, log, lastClose, fault, paramVars, dataRT_, dataSize_,
                   dataReceived_, upload, dataNRT_, dataSent_, freed, dataReplies, cbVars, codecVars, sideVars>>

\* cmdRTfree (on the audio thread, after stage 4): RTFree(world, cmdData)
cmdRTfree ==
    /\ RtIdle
    /\ doneQueue # << >>
    /\ Head(doneQueue).destroyed
    /\ freed' = freed \cup {[seq |-> Head(doneQueue).seq, stages |-> Head(doneQueue).stages]}
    /\ doneQueue' = Tail(doneQueue)
    /\ UNCHANGED <<instVars, queueVars, rtPc, inboxVars, syncVars, plugins, lastReset,
                   openReplies, log, lastClose, fault, paramVars, dataRT_, dataSize_,
                   dataReceived_, upload, dataNRT_, dataSent_, dataReplies, cbVars, codecVars, sideVars>>

(* -------------------- the VST2 backend: FXP and FXB -------------------- *)
fxProgramHeaderSize == 56
fxBankHeaderSize == 156

\* CCONST('C','c','n','K') and the other magic numbers
cMagic == <<67, 99, 110, 75>>
fMagic == <<70, 120, 67, 107>>
bankMagic == <<70, 120, 66, 107>>
chunkPresetMagic == <<70, 80, 67, 104>>
chunkBankMagic == <<70, 66, 67, 104>>

\* the result of a size_t subtraction that wrapped around: larger than any size
SizeMax == 2147483647
\* a - b in size_t
SizeSub(a, b) == IF a >= b THEN a - b ELSE SizeMax

Zeros(n) == [k \in 1..n |-> 0]

RECURSIVE Flatten(_)
Flatten(ss) == IF ss = << >> THEN << >> ELSE Head(ss) \o Flatten(Tail(ss))

\* int32_to_bytes and float_to_bytes, which have the same body: the
\* little-endian build swaps the bytes of the value, the other build copies
\* un_bytes[0], [1], [1] and [3]
int32_to_bytes(w, big) == IF big THEN <<w[1], w[2], w[2], w[4]>> ELSE <<w[1], w[2], w[3], w[4]>>
float_to_bytes(w, big) == int32_to_bytes(w, big)

\* bytes_to_int32(data + at) and bytes_to_float(data + at): in both builds the
\* value whose bytes, most significant first, are the four bytes at the offset
bytes_to_int32(data, at) == <<data[at + 1], data[at + 2], data[at + 3], data[at + 4]>>
bytes_to_float(data, at) == bytes_to_int32(data, at)

\* the C string that begins at an offset of the data
RECURSIVE CString(_, _)
CString(data, at) ==
    IF at >= Len(data) \/ data[at + 1] = 0 THEN << >>
    ELSE <<data[at + 1]>> \o CString(data, at + 1)

\* char prgName[28]: strncpy(prgName, name, 27) and prgName[27] = '\0'
NameField(name) == [k \in 1..28 |-> IF k <= Min(Len(name), 27) THEN name[k] ELSE 0]

\* the seven or eight VstInt32 of a header, serialized
Header(words, big) == Flatten([k \in DOMAIN words |-> int32_to_bytes(words[k], big)])

\* VST2Plugin::writeProgramData(buffer): the buffer afterwards
WriteProgram(f, big, buffer) ==
    LET prgName == NameField(FxProgramName(f)) IN
    IF ~f.chunks
    THEN LET nparams == NumParams
             totalSize == fxProgramHeaderSize + nparams * 4
         IN Header(<<cMagic, IntWord(totalSize - 8), fMagic, IntWord(1), IntWord(1),
                     IntWord(1), IntWord(nparams)>>, big)
            \o prgName
            \o Flatten([i \in 1..nparams |-> float_to_bytes(FxParameter(f, i - 1), big)])
    ELSE IF Len(f.chunk) = 0
    THEN buffer
    ELSE LET totalSize == fxProgramHeaderSize + 4 + Len(f.chunk)
         IN Header(<<cMagic, IntWord(totalSize - 8), chunkPresetMagic, IntWord(1),
                     IntWord(1), IntWord(1), IntWord(NumParams)>>, big)
            \o prgName
            \o int32_to_bytes(IntWord(Len(f.chunk)), big)
            \o f.chunk

\* the loop of readProgramData over the parameters of the data
RECURSIVE SetParameters(_, _, _, _)
SetParameters(f, data, i, numParams) ==
    IF i >= numParams THEN f
    ELSE SetParameters(FxSetParameter(f, i, bytes_to_float(data, fxProgramHeaderSize + 4 * i)),
                       data, i + 1, numParams)

\* numParams * sizeof(float) > totalSize - fxProgramHeaderSize is the
\* rejection; this is its negation
paramsFit(numParams, totalSize) ==
    ~(numParams * 4 > SizeSub(totalSize, fxProgramHeaderSize))

\* VST2Plugin::readProgramData(data, size): [ok, fx, fault], the return
\* value, the backend afterwards, and whether it read past the data
ReadProgram(f, data) ==
    LET size == Len(data)
        rejected == [ok |-> FALSE, fx |-> f, fault |-> "none"]
        past == [ok |-> FALSE, fx |-> f, fault |-> "readProgramData reads past the data"]
    IN IF size < fxProgramHeaderSize THEN rejected
       ELSE LET chunkMagic == bytes_to_int32(data, 0)
                byteSize == WordInt(bytes_to_int32(data, 4))
                totalSize == byteSize + 8
                fxMagic == bytes_to_int32(data, 8)
                numParams == WordInt(bytes_to_int32(data, 24))
                prgName == CString(data, 28)
            IN IF chunkMagic # cMagic THEN rejected
               ELSE IF totalSize > size THEN rejected
               ELSE IF fxMagic = fMagic
               THEN IF f.chunks THEN rejected
                    ELSE IF ~paramsFit(numParams, totalSize) THEN rejected
                    ELSE IF fxProgramHeaderSize + numParams * 4 > size THEN past
                    ELSE [ok |-> TRUE,
                          fx |-> SetParameters(FxSetProgramName(f, prgName), data, 0,
                                               numParams),
                          fault |-> "none"]
               ELSE IF fxMagic = chunkPresetMagic
               THEN IF ~f.chunks THEN rejected
                    ELSE IF fxProgramHeaderSize + 4 > size THEN past
                    ELSE LET chunkSize == WordInt(bytes_to_int32(data, fxProgramHeaderSize))
                         IN IF chunkSize # SizeSub(totalSize, fxProgramHeaderSize + 4)
                            THEN rejected
                            ELSE [ok |-> TRUE,
                                  fx |-> [FxSetProgramName(f, prgName) EXCEPT
                                            !.chunk = SubSeq(data, fxProgramHeaderSize + 5,
                                                      fxProgramHeaderSize + 4 + chunkSize)],
                                  fault |-> "none"]
               ELSE rejected

\* the loop of writeBankData over the programs: [bytes, fx, ok]; ok is false
\* when a program came out with another size than programSize
RECURSIVE WritePrograms(_, _, _, _, _)
WritePrograms(f, big, i, nprograms, programSize) ==
    IF i >= nprograms THEN [bytes |-> << >>, fx |-> f, ok |-> TRUE]
    ELSE LET f1 == FxSetProgram(f, i)
             progData == WriteProgram(f1, big, << >>)
         IN IF Len(progData) # programSize
            THEN [bytes |-> << >>, fx |-> f1, ok |-> FALSE]
            ELSE LET rest == WritePrograms(f1, big, i + 1, nprograms, programSize)
                 IN [bytes |-> progData \o rest.bytes, fx |-> rest.fx, ok |-> rest.ok]

\* a writeBankData that would leave the last program it wrote active
restoreProgramSkipped(f, program) == f

\* "restore current program": setProgram(header[7])
restoreProgram(f, program) == FxSetProgram(f, program)

\* VST2Plugin::writeBankData(buffer): [buffer, fx]
WriteBank(f, big, buffer) ==
    IF ~f.chunks
    THEN LET nprograms == NumPrograms
             programSize == fxProgramHeaderSize + NumParams * 4
             totalSize == fxBankHeaderSize + nprograms * programSize
             header == Header(<<cMagic, IntWord(totalSize - 8), bankMagic, IntWord(1),
                                IntWord(1), IntWord(1), IntWord(nprograms),
                                IntWord(f.program)>>, big)
             w == WritePrograms(f, big, 0, nprograms, programSize)
         IN IF ~w.ok
            THEN [buffer |-> << >>, fx |-> w.fx]
            ELSE [buffer |-> header \o Zeros(fxBankHeaderSize - Len(header)) \o w.bytes,
                  fx |-> restoreProgram(w.fx, f.program)]
    ELSE IF Len(f.bankChunk) = 0
    THEN [buffer |-> buffer, fx |-> f]
    ELSE LET totalSize == fxBankHeaderSize + 4 + Len(f.bankChunk)
             header == Header(<<cMagic, IntWord(totalSize - 8), chunkBankMagic, IntWord(1),
                                IntWord(1), IntWord(1), IntWord(NumPrograms),
                                IntWord(f.program)>>, big)
         IN [buffer |-> header \o Zeros(fxBankHeaderSize - Len(header))
                        \o int32_to_bytes(IntWord(Len(f.bankChunk)), big) \o f.bankChunk,
             fx |-> f]

\* the loop of readBankData over the programs of the data; the return value
\* of readProgramData is not looked at
RECURSIVE ReadPrograms(_, _, _, _, _)
ReadPrograms(f, data, i, numPrograms, programSize) ==
    IF i >= numPrograms THEN [fx |-> f, fault |-> "none"]
    ELSE LET at == fxBankHeaderSize + i * programSize
             r == ReadProgram(FxSetProgram(f, i), SubSeq(data, at + 1, at + programSize))
         IN IF r.fault # "none" THEN [fx |-> r.fx, fault |-> r.fault]
            ELSE ReadPrograms(r.fx, data, i + 1, numPrograms, programSize)

\* VST2Plugin::readBankData(data, size): [ok, fx, fault]
ReadBank(f, data) ==
    LET size == Len(data)
        rejected == [ok |-> FALSE, fx |-> f, fault |-> "none"]
        past == [ok |-> FALSE, fx |-> f, fault |-> "readBankData reads past the data"]
    IN IF size < fxBankHeaderSize THEN rejected
       ELSE LET chunkMagic == bytes_to_int32(data, 0)
                byteSize == WordInt(bytes_to_int32(data, 4))
                totalSize == byteSize + 8
                fxMagic == bytes_to_int32(data, 8)
                numPrograms == WordInt(bytes_to_int32(data, 24))
                currentProgram == WordInt(bytes_to_int32(data, 28))
            IN IF chunkMagic # cMagic THEN rejected
               ELSE IF totalSize > size THEN rejected
               ELSE IF fxMagic = bankMagic
               THEN LET programSize == fxProgramHeaderSize + NumParams * 4 IN
                    IF f.chunks THEN rejected
                    ELSE IF numPrograms * programSize > SizeSub(totalSize, fxBankHeaderSize)
                    THEN rejected
                    ELSE IF fxBankHeaderSize + numPrograms * programSize > size THEN past
                    ELSE LET r == ReadPrograms(f, data, 0, numPrograms, programSize)
                         IN [ok |-> r.fault = "none",
                             fx |-> FxSetProgram(r.fx, currentProgram),
                             fault |-> r.fault]
               ELSE IF fxMagic = chunkBankMagic
               THEN IF ~f.chunks THEN rejected
                    ELSE IF fxBankHeaderSize + 4 > size THEN past
                    ELSE LET chunkSize == WordInt(bytes_to_int32(data, fxBankHeaderSize))
                         IN IF chunkSize # SizeSub(totalSize, fxBankHeaderSize + 4)
                            THEN rejected
                            ELSE [ok |-> TRUE,
                                  fx |-> [f EXCEPT
                                            !.bankChunk = SubSeq(data, fxBankHeaderSize + 5,
                                                          fxBankHeaderSize + 4 + chunkSize)],
                                  fault |-> "none"]
               ELSE rejected

\* FXP data as a client or a file holds it
MakeFxp(magic, byteSize, fxMagic, numParams, name, body) ==
    magic \o IntWord(byteSize) \o fxMagic \o IntWord(1) \o IntWord(1) \o IntWord(1)
          \o IntWord(numParams) \o NameField(name) \o body

\* n floats: v, the other float, v, ...
Floats(v, n) ==
    Flatten([i \in 1..n |-> IF i % 2 = 1 THEN v ELSE CHOOSE u \in FloatWords : u # v])

\* The FXP data the clients send, each with what it is: its form, the number
\* of parameters it declares, the bytes of its body, and whether it is bad.
\*   good, other: as a plugin with parameters / with chunks writes it
\*   shorter, longer: the body has less / more bytes than the parameters declared
\*   truncated: the byte size of the header exceeds the data
\*   small: the byte size of the header is less than the header itself
\*   magic: not FXP data
FxpInputs ==
    LET n == NumParams
        name == <<88>>
        in(kind, form, declared, bad, data) ==
            [kind |-> kind, form |-> form, declared |-> declared,
             body |-> Len(data) - fxProgramHeaderSize, bad |-> bad, data |-> data]
    IN UNION {
        { in("good", "params", n, FALSE,
             MakeFxp(cMagic, 48 + 4 * n, fMagic, n, name, Floats(v, n))),
          in("shorter", "params", n + 1, TRUE,
             MakeFxp(cMagic, 48 + 4 * n, fMagic, n + 1, name, Floats(v, n))),
          in("longer", "params", n, TRUE,
             MakeFxp(cMagic, 48 + 4 * (n + 1), fMagic, n, name, Floats(v, n + 1))),
          in("truncated", "params", n, TRUE,
             MakeFxp(cMagic, 48 + 4 * (n + 1), fMagic, n, name, Floats(v, n))),
          in("small", "params", n, TRUE,
             MakeFxp(cMagic, 0, fMagic, n, name, Floats(v, n))),
          in("magic", "params", n, TRUE,
             MakeFxp(Zeros(4), 48 + 4 * n, fMagic, n, name, Floats(v, n))) }
        : v \in FloatWords }
       \cup
       { in("other", "chunk", n, FALSE,
            MakeFxp(cMagic, 48 + 4 + 2, chunkPresetMagic, n, name, IntWord(2) \o <<7, 8>>)) }

\* FXB data as a client or a file holds it
MakeFxb(magic, byteSize, fxMagic, numPrograms, currentProgram, body) ==
    magic \o IntWord(byteSize) \o fxMagic \o IntWord(1) \o IntWord(1) \o IntWord(1)
          \o IntWord(numPrograms) \o IntWord(currentProgram) \o Zeros(124) \o body

\* The FXB data the clients send: a good bank, a bank whose last program is
\* not FXP data, one that declares a program more than it has, and no FXB data
FxbInputs ==
    LET n == NumParams
        ps == fxProgramHeaderSize + 4 * n
        np == NumPrograms
        prog(magic, v) == MakeFxp(magic, 48 + 4 * n, fMagic, n, <<88>>, Floats(v, n))
        progs(v, lastMagic) ==
            Flatten([k \in 1..np |-> prog(IF k = np THEN lastMagic ELSE cMagic, v)])
        in(kind, declared, bad, data) ==
            [kind |-> kind, form |-> "params", declared |-> declared,
             body |-> Len(data) - fxBankHeaderSize, bad |-> bad, data |-> data]
    IN UNION {
        { in("good", np, FALSE,
             MakeFxb(cMagic, 148 + np * ps, bankMagic, np, np - 1, progs(v, cMagic))),
          in("blob", np, TRUE,
             MakeFxb(cMagic, 148 + np * ps, bankMagic, np, np - 1, progs(v, Zeros(4)))),
          in("shorter", np + 1, TRUE,
             MakeFxb(cMagic, 148 + np * ps, bankMagic, np + 1, 0, progs(v, cMagic))),
          in("magic", np, TRUE,
             MakeFxb(Zeros(4), 148 + np * ps, bankMagic, np, 0, progs(v, cMagic))) }
        : v \in FloatWords }

\* everything but the backend and the process's fault
unitVars ==
    <<instVars, queueVars, rtPc, inboxVars, syncVars, plugins, lastReset, openReplies, log,
      lastClose, paramVars, dataVars, cbVars, bigEndian, ioLog, sideVars>>

\* VST2Plugin::setProgram
fxSetProgram(program) ==
    /\ fault = "none"
    /\ fx' = FxSetProgram(fx, program)
    /\ fxOp' = [NoOp EXCEPT !.op = "setProgram"]
    /\ fxBuffer' = << >>
    /\ UNCHANGED <<unitVars, fault>>

\* VST2Plugin::writeProgramData(buffer)
writeProgramData ==
    /\ fault = "none"
    /\ fxBuffer' = WriteProgram(fx, bigEndian, << >>)
    /\ fxOp' = [NoOp EXCEPT !.op = "writeProgram"]
    /\ UNCHANGED <<unitVars, fault, fx>>

\* VST2Plugin::readProgramData(data, size) on the data of a client
readProgramData(input) ==
    /\ fault = "none"
    /\ LET r == ReadProgram(fx, input.data) IN
        /\ fx' = r.fx
        /\ fault' = r.fault
        /\ fxOp' = [op |-> "readProgram", form |-> input.form, declared |-> input.declared,
                    body |-> input.body, bad |-> input.bad, result |-> r.ok,
                    changed |-> r.fx # fx]
    /\ fxBuffer' = << >>
    /\ UNCHANGED unitVars

\* readProgramData on the bytes writeProgramData produced
readProgramDataBack ==
    /\ fault = "none"
    /\ fxOp.op = "writeProgram"
    /\ LET r == ReadProgram(fx, fxBuffer) IN
        /\ fx' = r.fx
        /\ fault' = r.fault
        /\ fxOp' = [op |-> "readProgramBack", form |-> "written", declared |-> 0,
                    body |-> 0, bad |-> FALSE, result |-> r.ok, changed |-> r.fx # fx]
    /\ fxBuffer' = << >>
    /\ UNCHANGED unitVars

\* VST2Plugin::writeBankData(buffer)
writeBankData ==
    /\ fault = "none"
    /\ LET w == WriteBank(fx, bigEndian, << >>) IN
        /\ fxBuffer' = w.buffer
        /\ fx' = w.fx
    /\ fxOp' = [NoOp EXCEPT !.op = "writeBank"]
    /\ UNCHANGED <<unitVars, fault>>

\* VST2Plugin::readBankData(data, size) on the data of a client
readBankData(input) ==
    /\ fault = "none"
    /\ LET r == ReadBank(fx, input.data) IN
        /\ fx' = r.fx
        /\ fault' = r.fault
        /\ fxOp' = [op |-> "readBank", form |-> input.form, declared |-> input.declared,
                    body |-> input.body, bad |-> input.bad, result |-> r.ok,
                    changed |-> r.fx # fx]
    /\ fxBuffer' = << >>
    /\ UNCHANGED unitVars

(* ----------------------- programs and preset files --------------------- *)
\* VSTPlugin::setProgram(index). alloc: whether makeCmdData succeeds.
setProgram(index, alloc) ==
    /\ RtIdle
    /\ nSubmitted < MaxCmds
    /\ IF plugin_ = Null
       THEN /\ log' = "VSTPlugin: no plugin!"
            /\ UNCHANGED <<nrtQueue, nSubmitted>>
       ELSE IF ~(index >= 0 /\ index < NumPrograms)
       THEN /\ log' = "program number out of range!"
            /\ UNCHANGED <<nrtQueue, nSubmitted>>
       ELSE IF alloc
       THEN /\ nrtQueue' = doCmd(nrtQueue,
                  [CmdData("SetProgram", nSubmitted + 1) EXCEPT !.value = index])
            /\ nSubmitted' = nSubmitted + 1
            /\ UNCHANGED log
       ELSE /\ log' = "RTAlloc failed!"
            /\ UNCHANGED <<nrtQueue, nSubmitted>>
    /\ UNCHANGED <<instVars, nrtCur, rtQueue, nOpens, nrtDone, rtDone, rtPc, inboxVars,
                   syncVars, plugins, lastReset, openReplies, lastClose, fault, extVars>>

\* cmdSetProgram (stage 2 on the worker): plugin()->setProgram(data->value)
cmdSetProgram ==
    /\ fault = "none"
    /\ nrtCur # << >>
    /\ nrtCur[1].kind = "SetProgram"
    /\ LET c == nrtCur[1] IN
        IF c.target = Null
        THEN /\ fault' = "null plugin in cmdSetProgram"
             /\ UNCHANGED <<nrtCur, rtQueue, nrtDone, fx, fxOp>>
        ELSE /\ fx' = FxSetProgram(fx, c.value)
             /\ fxOp' = [NoOp EXCEPT !.op = "setProgram"]
             /\ NrtDone([c EXCEPT !.stages = 1])
             /\ UNCHANGED fault
    /\ UNCHANGED <<instVars, nrtQueue, nSubmitted, nOpens, rtDone, rtPc, inboxVars, syncVars,
                   plugins, lastReset, openReplies, log, lastClose, paramVars, dataVars,
                   cbVars, bigEndian, fxBuffer, ioLog, sideVars>>

\* cmdSetProgramDone (stage 3 on the audio thread): the reply
\* /vst_program_index with plugin()->getProgram()
cmdSetProgramDone ==
    /\ RtTake("SetProgram")
    /\ LET c == Head(rtQueue) IN
        IF plugin_ = Null
        THEN /\ fault' = "null plugin in cmdSetProgramDone"
             /\ UNCHANGED <<dataReplies, doneQueue>>
        ELSE /\ dataReplies' = Append(dataReplies,
                    DataReply(c, "/vst_program_index", <<fx.program>>))
             /\ doneQueue' = Append(doneQueue,
                    [seq |-> c.seq, stages |-> c.stages + 1, destroyed |-> FALSE])
             /\ UNCHANGED fault
    /\ UNCHANGED <<instVars, nrtQueue, nrtCur, nSubmitted, nOpens, nrtDone, rtPc, inboxVars,
                   syncVars, plugins, lastReset, openReplies, log, lastClose,
                   paramVars, dataRT_, dataSize_, dataReceived_, upload, dataNRT_, dataSent_,
                   freed, cbVars, codecVars, sideVars>>

\* VSTPlugin::readProgram(path), readBank(path), writeProgram(path) and
\* writeBank(path): check(), then doCmd(makeCmdData(path), ...), which submits
\* nothing when makeCmdData returns null. kind names the command.
fileCommand(kind, alloc) ==
    /\ RtIdle
    /\ nSubmitted < MaxCmds
    /\ IF plugin_ = Null
       THEN /\ log' = "VSTPlugin: no plugin!"
            /\ UNCHANGED <<nrtQueue, nSubmitted>>
       ELSE IF alloc
       THEN /\ nrtQueue' = doCmd(nrtQueue, CmdData(kind, nSubmitted + 1))
            /\ nSubmitted' = nSubmitted + 1
            /\ UNCHANGED log
       ELSE /\ log' = "RTAlloc failed!"
            /\ UNCHANGED <<nrtQueue, nSubmitted>>
    /\ UNCHANGED <<instVars, nrtCur, rtQueue, nOpens, nrtDone, rtDone, rtPc, inboxVars,
                   syncVars, plugins, lastReset, openReplies, lastClose, fault, extVars>>

\* cmdReadProgram / cmdReadBank (stage 2 on the worker):
\* data->value = plugin()->readProgramFile(data->buf), which returns false
\* when the file does not open and readProgramData of its bytes otherwise.
\* opens: whether the file opens; input: what the file holds.
cmdReadFile(opens, input) ==
    /\ fault = "none"
    /\ nrtCur # << >>
    /\ nrtCur[1].kind \in {"ReadProgram", "ReadBank"}
    /\ LET c == nrtCur[1]
           r == IF ~opens THEN [ok |-> FALSE, fx |-> fx, fault |-> "none"]
                ELSE IF c.kind = "ReadBank" THEN ReadBank(fx, input.data)
                ELSE ReadProgram(fx, input.data)
       IN IF c.target = Null
          THEN /\ fault' = "null plugin in cmdReadProgram"
               /\ UNCHANGED <<nrtCur, rtQueue, nrtDone, fx, fxOp, ioLog>>
          ELSE /\ fx' = r.fx
               /\ fault' = r.fault
               /\ fxOp' = [NoOp EXCEPT !.op = "readFile"]
               /\ ioLog' = Append(ioLog, [seq |-> c.seq, op |-> c.kind, ok |-> r.ok,
                                          changed |-> r.fx # fx])
               /\ NrtDone([c EXCEPT !.value = IF r.ok THEN 1 ELSE 0, !.stages = 1])
    /\ UNCHANGED <<instVars, nrtQueue, nSubmitted, nOpens, rtDone, rtPc, inboxVars, syncVars,
                   plugins, lastReset, openReplies, log, lastClose, paramVars, dataVars,
                   cbVars, bigEndian, fxBuffer, sideVars>>

\* cmdWriteProgram / cmdWriteBank (stage 2 on the worker):
\* plugin()->writeProgramFile(data->buf), which returns nothing and writes
\* nothing when the file cannot be created. opens: whether it can.
cmdWriteFile(opens) ==
    /\ fault = "none"
    /\ nrtCur # << >>
    /\ nrtCur[1].kind \in {"WriteProgram", "WriteBank"}
    /\ LET c == nrtCur[1]
           w == IF opens /\ c.kind = "WriteBank" THEN WriteBank(fx, bigEndian, << >>)
                ELSE [buffer |-> << >>, fx |-> fx]
       IN IF c.target = Null
          THEN /\ fault' = "null plugin in cmdWriteProgram"
               /\ UNCHANGED <<nrtCur, rtQueue, nrtDone, fx, ioLog>>
          ELSE /\ fx' = w.fx
               /\ ioLog' = Append(ioLog, [seq |-> c.seq, op |-> c.kind, ok |-> opens,
                                          changed |-> w.fx # fx])
               /\ NrtDone([c EXCEPT !.stages = 1])
               /\ UNCHANGED fault
    /\ UNCHANGED <<instVars, nrtQueue, nSubmitted, nOpens, rtDone, rtPc, inboxVars, syncVars,
                   plugins, lastReset, openReplies, log, lastClose, paramVars, dataVars,
                   cbVars, bigEndian, fxBuffer, fxOp, sideVars>>

\* cmdWriteProgramDone / cmdWriteBankDone (stage 3 on the audio thread):
\* sendMsg("/vst_program_write", 1)
cmdWriteFileDone ==
    /\ \E kind \in {"WriteProgram", "WriteBank"} : RtTake(kind)
    /\ LET c == Head(rtQueue) IN
        /\ dataReplies' = Append(dataReplies,
              DataReply(c, IF c.kind = "WriteBank" THEN "/vst_bank_write"
                           ELSE "/vst_program_write", <<1>>))
        /\ doneQueue' = Append(doneQueue,
              [seq |-> c.seq, stages |-> c.stages + 1, destroyed |-> FALSE])
    /\ UNCHANGED <<instVars, nrtQueue, nrtCur, nSubmitted, nOpens, nrtDone, rtPc, inboxVars,
                   syncVars, plugins, lastReset, openReplies, log, lastClose, fault,
                   paramVars, dataRT_, dataSize_, dataReceived_, upload, dataNRT_, dataSent_,
                   freed, cbVars, codecVars, sideVars>>

(* ---------------------------- specifications --------------------------- *)
\* opening and closing: the unit commands, their two stages, and next()
Lifecycle ==
    \/ \E gui, allocClose, allocOpen \in BOOLEAN : open(gui, allocClose, allocOpen)
    \/ \E alloc \in BOOLEAN : close(alloc)
    \/ NrtBegin
    \/ \E loadOk, editor \in BOOLEAN : cmdOpen(loadOk, editor)
    \/ cmdClose
    \/ doneOpen(TRUE)
    \/ rtFree
    \/ \E bypass \in BOOLEAN : nextProcess(bypass, 0, << >>)
    \/ nextDrain

\* VSTPlugin with the commands that act on the loaded plugin
Next ==
    \/ Lifecycle
    \/ \E index \in 0..NumParams, alloc \in BOOLEAN : setParam(index, 1, alloc)
    \/ \E async, alloc \in BOOLEAN : reset(async, alloc)
    \/ cmdSetParam
    \/ cmdReset
    \/ setParamDone

Spec == Init /\ [][Next]_vars

\* VSTPlugin with an editor that automates parameters from the GUI thread;
\* the value of an event is its number, which tells the events apart
NextInbox ==
    \/ Lifecycle
    \/ \E index \in ParamIdx : guiLock(index, Len(pushed) + 1)
    \/ guiPush

SpecInbox == Init /\ [][NextInbox]_vars

\* VSTPlugin with one plugin, which has an editor and calls the listener back
\* from every thread;
\* the value of a callback is its number, which tells the callbacks apart
NextListener ==
    \/ nOpens = 0 /\ open(TRUE, TRUE, TRUE)
    \/ NrtBegin
    \/ cmdOpen(TRUE, TRUE)
    \/ doneOpen(TRUE)
    \/ setParam(0, 1, TRUE)
    \/ cmdSetParam
    \/ setParamDone
    \/ \E bypass \in BOOLEAN : nextProcess(bypass, 0, << >>)
    \/ nextDrain
    \/ \E thread \in {"rt", "nrt"}, index \in ParamIdx :
            listenerParameterAutomated(thread, index, Len(callbacks) + 1)
    \/ performParameterAutomated
    \/ \E kind \in {"midi", "sysex"}, thread \in {"rt", "nrt", "gui"}, alloc \in BOOLEAN :
            listenerMidiEvent(kind, thread, Len(callbacks) + 1, alloc)

SpecListener == Init /\ [][NextListener]_vars

\* VSTPlugin without an editor and without parameter control inputs: one
\* plugin, its parameters set by commands and mapped to the control bus,
\* which holds 2
NextParam ==
    \/ nOpens = 0 /\ open(FALSE, TRUE, TRUE)
    \/ NrtBegin
    \/ cmdOpen(TRUE, FALSE)
    \/ \E alloc \in BOOLEAN : doneOpen(alloc)
    \/ \E index \in ParamIdx, value \in ParamValues : setParam(index, value, TRUE)
    \/ cmdSetParam
    \/ setParamDone
    \/ \E index \in ParamIdx : mapParam(index, TheBus)
    \/ \E bypass \in BOOLEAN : nextProcess(bypass, 2, << >>)
    \/ nextDrain

SpecParam == Init /\ [][NextParam]_vars

\* the parameter control inputs of a UGen made with one parameter control
Controls == {<< [index |-> i, value |-> v] >> : i \in ParamIdx, v \in ParamValues}

\* VSTPlugin without an editor: one plugin, its parameters driven by the
\* control bus and by the parameter control input
NextMap ==
    \/ nOpens = 0 /\ open(FALSE, TRUE, TRUE)
    \/ NrtBegin
    \/ cmdOpen(TRUE, FALSE)
    \/ \E alloc \in BOOLEAN : doneOpen(alloc)
    \/ \E index \in 0..NumParams : mapParam(index, TheBus)
    \/ \E index \in 0..NumParams : unmapParam(index)
    \/ \E bypass \in BOOLEAN, busValue \in ParamValues, ctl \in Controls :
            nextProcess(bypass, busValue, ctl)
    \/ nextDrain

SpecMap == Init /\ [][NextMap]_vars

\* the preset of MaxData bytes that the clients upload and the plugin writes
Preset == [k \in 1..MaxData |-> k % 2]

\* the packets a client sends: some bytes of the preset at their onset, the
\* first packet announcing any total size (later packets repeat a total size
\* that sendData does not read)
Packets ==
    {[totalSize |-> t, onset |-> o, data |-> SubSeq(Preset, o + 1, o + n)] :
        <<t, o, n>> \in {x \in (1..MaxData) \X (0..(MaxData - 1)) \X (1..MaxData) :
                          /\ x[2] + x[3] <= MaxData
                          /\ x[2] # 0 => x[1] = MaxData}}

\* uploading a program to the open plugin: the packets of vst_program_data_set
\* (sendProgramData: sendData with bank = false), each with some bytes of the
\* preset, under any total size and in any order, and the SetProgramData commands
NextUpload ==
    \/ nOpens = 0 /\ open(FALSE, TRUE, TRUE)
    \/ NrtBegin
    \/ cmdOpen(TRUE, FALSE)
    \/ doneOpen(TRUE)
    \/ /\ plugin_ # Null
       /\ \E p \in Packets, allocCmd \in BOOLEAN :
            \E alloc \in IF p.onset = 0 THEN BOOLEAN ELSE {TRUE} :
                sendData(p.totalSize, p.onset, p.data, FALSE, alloc, allocCmd)
    \/ cmdSetData(TRUE)
    \/ cmdDataDone

SpecUpload == Init /\ [][NextUpload]_vars

\* downloading the preset of the open plugin: the GetProgramData commands of
\* vst_program_data_get with their four stages
NextDownload ==
    \/ nOpens = 0 /\ open(FALSE, TRUE, TRUE)
    \/ NrtBegin
    \/ cmdOpen(TRUE, FALSE)
    \/ doneOpen(TRUE)
    \/ /\ plugin_ # Null
       /\ \E count \in 0..1, alloc \in BOOLEAN : receiveProgramData(count, alloc)
    \/ \E n \in 0..MaxData : cmdGetData(SubSeq(Preset, 1, n))
    \/ cmdGetDataDone
    \/ cmdNRTfree
    \/ cmdRTfree

SpecDownload == Init /\ [][NextDownload]_vars

\* VSTPlugin with the commands that select a program and read and write
\* preset files, on one loaded plugin. A file holds any of the FXP and FXB
\* data above, whichever command reads it.
FileInputs == {input \in FxpInputs \cup FxbInputs : input.kind \in {"good", "magic", "blob"}}

NextProgram ==
    \/ nOpens = 0 /\ open(FALSE, TRUE, TRUE)
    \/ NrtBegin
    \/ cmdOpen(TRUE, FALSE)
    \/ doneOpen(TRUE)
    \/ \E index \in 0..NumPrograms, alloc \in BOOLEAN : setProgram(index, alloc)
    \/ cmdSetProgram
    \/ cmdSetProgramDone
    \/ \E kind \in {"ReadProgram", "ReadBank", "WriteProgram", "WriteBank"}, alloc \in BOOLEAN :
          fileCommand(kind, alloc)
    \/ \E opens \in BOOLEAN, input \in FileInputs : cmdReadFile(opens, input)
    \/ \E opens \in BOOLEAN : cmdWriteFile(opens)
    \/ cmdWriteFileDone
    \/ cmdDataDone

SpecProgram == Init /\ [][NextProgram]_vars

\* VSTPlugin with the control operations arriving only while it has no plugin:
\* before an open, while the open is with the worker and after a failed open
NextNotLoaded ==
    \/ nOpens = 0 /\ open(FALSE, TRUE, TRUE)
    \/ NrtBegin
    \/ \E loadOk \in BOOLEAN : cmdOpen(loadOk, FALSE)
    \/ doneOpen(TRUE)
    \/ plugin_ = Null /\ setParam(0, 1, TRUE)
    \/ plugin_ = Null /\ reset(FALSE, TRUE)
    \/ plugin_ = Null /\ setProgram(0, TRUE)
    \/ /\ plugin_ = Null
       /\ \E kind \in {"ReadProgram", "ReadBank", "WriteProgram", "WriteBank"} :
            fileCommand(kind, TRUE)
    \/ plugin_ = Null /\ receiveProgramData(1, TRUE)
    \/ /\ plugin_ = Null
       /\ \E p \in {q \in Packets : q.totalSize = MaxData /\ q.onset + Len(q.data) = MaxData} :
            sendData(p.totalSize, p.onset, p.data, FALSE, TRUE, TRUE)
    \/ cmdSetData(TRUE)
    \/ cmdDataDone

SpecNotLoaded == Init /\ [][NextNotLoaded]_vars

\* the presets of a backend: its program changes, and FXP and
\* FXB data is written and read, in either build and for either kind of plugin
NextCodec ==
    \/ \E program \in 0..(NumPrograms - 1) : fxSetProgram(program)
    \/ writeProgramData
    \/ \E input \in FxpInputs : readProgramData(input)
    \/ readProgramDataBack
    \/ writeBankData
    \/ \E input \in FxbInputs : readBankData(input)

SpecCodec == InitCodec /\ [][NextCodec]_vars



(***************************************************************************)
(* VstPlugin (src/unnamed/part_000): the synchronous host.                 *)
(***************************************************************************)
\* sizeof(VstPlugin::ParamAutomated): an int index and a float value
SizeofParamAutomated == 8
\* the capacity the queue starts with
InitialCapacity == 8
\* what reads back from a queue item that was written outside the allocation
Garbage == [index |-> -1, value |-> -1]

\* VstPlugin::close(), as the record of the fields it leaves behind. With a
\* window the message loop quits and threadFunction frees the plugin and
\* clears plugin_ before the join returns; else the caller frees it.
VstPlugin_closeResult ==
    [plugin_ |-> Null, window_ |-> Null, thread_ |-> Null,
     plugins |-> IF plugin_ = Null THEN plugins
                 ELSE [plugins EXCEPT ![plugin_].state = "freed",
                                      ![plugin_].freedOn = IF window_ # Null THEN "gui" ELSE "rt",
                                      ![plugin_].frees = @ + 1,
                                      ![plugin_].loop = FALSE]]

\* the close unit command: VstPlugin::close()
VstPlugin_close ==
    /\ UNCHANGED extVars
    /\ RtIdle
    /\ window_ # Null => guiPc = "idle"
    /\ LET r == VstPlugin_closeResult IN
        /\ plugin_' = r.plugin_
        /\ window_' = r.window_
        /\ thread_' = r.thread_
        /\ plugins' = r.plugins
    /\ UNCHANGED <<isLoading_, queueVars, rtPc, inboxVars, syncVars, lastReset, openReplies,
                   log, lastClose, fault>>

\* VstPlugin::open(path, gui) with tryOpenPlugin and threadFunction.
\* loadOk: loadVSTPlugin returns a plugin; editor: the plugin has an editor
\* and VSTWindowFactory::create returns a window; alloc: whether the
\* RTRealloc of paramStates_ succeeds.
VstPlugin_open(gui, loadOk, editor, alloc) ==
    /\ UNCHANGED <<block, unmapped, paramReplies, dataVars, cbVars, codecVars, sideVars>>
    /\ paramStates_' = IF ~loadOk THEN paramStates_
                       ELSE IF alloc THEN NewParamStates ELSE NoStates
    /\ RtIdle
    /\ nOpens < MaxOpens
    /\ window_ # Null => guiPc = "idle"
    /\ LET r == VstPlugin_closeResult
           p == nOpens + 1
           win == gui /\ loadOk /\ editor
       IN /\ nOpens' = p
          /\ thread_' = IF gui THEN p ELSE Null
          /\ window_' = IF win THEN p ELSE Null
          /\ IF loadOk
             THEN /\ plugin_' = p
                  /\ plugins' = [r.plugins EXCEPT ![p] =
                        [NoPlugin EXCEPT !.state = "live",
                                         !.createdOn = IF gui THEN "gui" ELSE "rt",
                                         !.listener = TRUE,
                                         !.loop = win]]
                  /\ openReplies' = Append(openReplies, <<1>>)
                  /\ log' = IF alloc THEN log ELSE "RTRealloc failed!"
             ELSE /\ plugin_' = Null
                  /\ plugins' = r.plugins
                  /\ openReplies' = Append(openReplies, <<0>>)
                  /\ log' = "VstPlugin: couldn't load"
    /\ UNCHANGED <<isLoading_, nrtQueue, nrtCur, rtQueue, nSubmitted, nrtDone, rtDone, rtPc,
                   inboxVars, syncVars, lastReset, lastClose, fault>>

\* the reset unit command: VstPlugin::reset()
VstPlugin_reset ==
    /\ UNCHANGED extVars
    /\ RtIdle
    /\ IF plugin_ # Null
       THEN lastReset' = "reset" /\ UNCHANGED log
       ELSE log' = "VstPlugin: no plugin!" /\ UNCHANGED lastReset
    /\ UNCHANGED <<instVars, queueVars, rtPc, inboxVars, syncVars, plugins, openReplies,
                   lastClose, fault>>

\* the parameter index vst_setn gives to the value number i of a block
\* that begins at index
setnIndexOfValue(index, i) == index + i
setnIndex(index, i) == index + 1

\* the <<index, value>> the loop of vst_setn passes to VstPlugin::setParam,
\* in order: the values from number i on whose index the plugin has
RECURSIVE setnCalls(_, _, _, _)
setnCalls(index, count, values, i) ==
    IF i >= count THEN << >>
    ELSE LET idx == setnIndex(index, i) IN
         (IF idx >= 0 /\ idx < NumParams THEN << <<idx, values[i + 1]>> >> ELSE << >>)
            \o setnCalls(index, count, values, i + 1)

\* VstPlugin::setParam for each of the calls: the parameters of the backend
\* and the parameter slots afterwards
RECURSIVE setParams(_, _, _)
setParams(param, states, calls) ==
    IF calls = << >> THEN [param |-> param, states |-> states]
    ELSE LET idx == calls[1][1]
             value == calls[1][2]
         IN setParams([param EXCEPT ![idx] = value],
                      [states EXCEPT ![idx] = [value |-> value, bus |-> NoBus]],
                      Tail(calls))

\* the setn unit command, vst_setn, with one block (index, count, values).
\* notify: whether sendParameter sends (gui_ == SC_GUI or notify_).
VstPlugin_setn(index, count, values, notify) ==
    /\ RtIdle
    /\ Len(paramReplies) < MaxEvents
    /\ LET calls == setnCalls(index, count, values, 0) IN
        IF plugin_ = Null
        THEN /\ log' = "VstPlugin: no plugin!"
             /\ UNCHANGED <<plugins, paramStates_, paramReplies, lastSetn, fault>>
        ELSE IF calls # << >> /\ paramStates_ = NoStates
        THEN /\ fault' = "null paramStates_ in setParam"
             /\ UNCHANGED <<plugins, paramStates_, paramReplies, lastSetn, log>>
        ELSE LET r == setParams(plugins[plugin_].param, paramStates_, calls) IN
             /\ plugins' = [plugins EXCEPT ![plugin_].param = r.param]
             /\ paramStates_' = r.states
             /\ paramReplies' = IF notify THEN paramReplies \o calls ELSE paramReplies
             /\ lastSetn' = [index |-> index, count |-> count, values |-> values,
                             set |-> calls]
             /\ UNCHANGED <<log, fault>>
    /\ UNCHANGED <<instVars, queueVars, rtPc, inboxVars, syncVars, lastReset, openReplies,
                   lastClose, block, unmapped, dataVars, cbVars, codecVars, unitFreed, manager, vsteditor>>

\* VstPlugin::next() enters; bypass is the input in0(0). It resets the plugin
\* when bypass went from on to off, then goes into the backend section or
\* copies the inputs and returns.
VstPlugin_next(bypass) ==
    /\ UNCHANGED extVars
    /\ RtIdle
    /\ IF plugin_ # Null /\ ~bypass /\ bypass # bypass_
       THEN lastReset' = "next"
       ELSE UNCHANGED lastReset
    /\ bypass_' = bypass
    /\ IF plugin_ # Null /\ ~bypass
       THEN rtPc' = "process"
       ELSE UNCHANGED rtPc
    /\ UNCHANGED <<instVars, queueVars, inboxVars, capacity, queueBytes, plugins,
                   openReplies, log, lastClose, fault>>

\* process() has returned and window_ is set: std::lock_guard(mutex_) finds
\* the mutex taken by the GUI thread, and the audio thread waits for it
VstPlugin_nextWait ==
    /\ UNCHANGED extVars
    /\ fault = "none"
    /\ rtPc = "process"
    /\ window_ # Null
    /\ mutex_ # "free"
    /\ rtPc' = "waiting"
    /\ UNCHANGED <<instVars, queueVars, inboxVars, syncVars, plugins, lastReset, openReplies,
                   log, lastClose, fault>>

\* the rest of next(): under the lock, parameterAutomated() for every item of
\* the queue, then paramQueue_.size = 0
VstPlugin_nextDrain ==
    /\ UNCHANGED extVars
    /\ fault = "none"
    /\ rtPc \in {"process", "waiting"}
    /\ window_ # Null => mutex_ = "free"
    /\ rtPc' = "idle"
    /\ IF window_ # Null
       THEN /\ paramQueue_' = << >>
            /\ delivered' = delivered \o paramQueue_
       ELSE UNCHANGED <<paramQueue_, delivered>>
    /\ UNCHANGED <<instVars, queueVars, mutex_, guiPc, guiEv, pushed, syncVars, plugins,
                   lastReset, openReplies, log, lastClose, fault>>

\* VstPluginListener::parameterAutomated, called by the editor on the GUI
\* thread: std::lock_guard(owner_->mutex_)
VstPluginListener_lock(index, value) ==
    /\ UNCHANGED extVars
    /\ fault = "none"
    /\ GuiPlugins # {}
    /\ guiPc = "idle"
    /\ mutex_ = "free"
    /\ Len(pushed) < MaxEvents
    /\ mutex_' = "gui"
    /\ guiPc' = "locked"
    /\ guiEv' = << [index |-> index, value |-> value] >>
    /\ UNCHANGED <<instVars, queueVars, rtPc, paramQueue_, pushed, delivered, syncVars,
                   plugins, lastReset, openReplies, log, lastClose, fault>>

\* the body of parameterAutomated under the lock: grow the queue with
\* RTRealloc(world, queue.data, newCapacity) when it is full, then write
\* queue.data[queue.size] and count it.
\* alloc: whether RTRealloc succeeds; outcome: what a write outside the
\* allocated bytes does ("intact", "corrupt" or "crash").
VstPluginListener_push(alloc, outcome) ==
    /\ UNCHANGED extVars
    /\ fault = "none"
    /\ guiPc = "locked"
    /\ LET size == Len(paramQueue_)
           grow == size >= capacity
           newCapacity == IF capacity > 0 THEN capacity * 2 ELSE InitialCapacity
           bytes == IF grow THEN newCapacity ELSE queueBytes
           inside == (size + 1) * SizeofParamAutomated <= bytes
       IN IF grow /\ ~alloc
          THEN /\ log' = "RTRealloc failed!"
               /\ UNCHANGED <<paramQueue_, pushed, capacity, queueBytes, fault>>
          ELSE /\ capacity' = IF grow THEN newCapacity ELSE capacity
               /\ queueBytes' = bytes
               /\ pushed' = Append(pushed, guiEv[1])
               /\ UNCHANGED log
               /\ IF inside \/ outcome = "intact"
                  THEN paramQueue_' = Append(paramQueue_, guiEv[1]) /\ UNCHANGED fault
                  ELSE IF outcome = "corrupt"
                  THEN paramQueue_' = Append(paramQueue_, Garbage) /\ UNCHANGED fault
                  ELSE fault' = "write outside paramQueue_.data" /\ UNCHANGED paramQueue_
    /\ guiEv' = << >>
    /\ mutex_' = "free"
    /\ guiPc' = "idle"
    /\ UNCHANGED <<instVars, queueVars, rtPc, delivered, bypass_, plugins, lastReset,
                   openReplies, lastClose>>

\* VstPlugin with the setn unit command: blocks of up to MaxEvents values
\* that begin before, at and after the parameters of the plugin
NextSetn ==
    \/ \E loadOk, alloc \in BOOLEAN : VstPlugin_open(FALSE, loadOk, FALSE, alloc)
    \/ VstPlugin_close
    \/ \E index \in (-1)..NumParams, count \in 0..MaxEvents, notify \in BOOLEAN :
          \E values \in [1..count -> ParamValues] :
              VstPlugin_setn(index, count, values, notify)

SpecSetn == Init /\ [][NextSetn]_vars

\* VSTPlugin with its destructor: the unit is freed while commands are in
\* flight, and nothing calls into the unit afterwards but the stages of those
\* commands
NextDestroy ==
    \/ ~unitFreed /\ nOpens = 0 /\ \E gui \in BOOLEAN : open(gui, TRUE, TRUE)
    \/ ~unitFreed /\ setParam(0, 1, TRUE)
    \/ \E alloc \in BOOLEAN : destroyUnit(alloc)
    \/ NrtBegin
    \/ \E loadOk, editor \in BOOLEAN : cmdOpen(loadOk, editor)
    \/ cmdClose
    \/ cmdSetParam
    \/ doneOpen(TRUE)
    \/ setParamDone
    \/ rtFree
    \/ stageOnFreedUnit

SpecDestroy == Init /\ [][NextDestroy]_vars

(* ------------------------------ PluginManager -------------------------- *)
\* the frame of the PluginManager: it shares nothing with the units
mgrFrame ==
    UNCHANGED <<instVars, queueVars, rtPc, inboxVars, syncVars, plugins, lastReset,
                openReplies, log, lastClose, fault, paramVars, dataVars, cbVars, codecVars,
                lastSetn, unitFreed, vsteditor>>

\* WriteLock lock(mutex_) at the head of fn: exclusive, waits for the writer
\* and for every reader
mgrWriteLock(t, fn) ==
    /\ manager.pc[t] = "idle"
    /\ fn \in MgrWriteLocked
    /\ manager.writer = NoThread
    /\ manager.readers = {}
    /\ manager' = [manager EXCEPT !.writer = t, !.pc[t] = fn]
    /\ mgrFrame

\* ReadLock lock(mutex_) at the head of fn: shared, waits for the writer only
mgrReadLock(t, fn) ==
    /\ manager.pc[t] = "idle"
    /\ fn \in MgrReadLocked
    /\ manager.writer = NoThread
    /\ manager' = [manager EXCEPT !.readers = @ \cup {t}, !.pc[t] = fn]
    /\ mgrFrame

\* the registries after the body of fn. cached: whether the cache file that
\* read() parses holds a plugin (with its key) and an exception.
mgrBody(m, fn, cached) ==
    CASE fn = "addFactory"   -> [m EXCEPT !.factories = @ \cup {MgrPath}]
      [] fn = "addException" -> [m EXCEPT !.exceptions = @ \cup {MgrPath}]
      [] fn = "addPlugin"    -> [m EXCEPT !.plugins = @ \cup {MgrKey}]
      [] fn = "clear"        -> [m EXCEPT !.factories = {}, !.plugins = {}, !.exceptions = {}]
      [] fn = "readPlugin"   -> [m EXCEPT !.factories = @ \cup {MgrPath}]
      [] fn = "read"         -> IF cached
                                THEN [m EXCEPT !.factories = @ \cup {MgrPath},
                                               !.plugins = @ \cup {MgrKey},
                                               !.exceptions = @ \cup {MgrPath}]
                                ELSE m
      [] OTHER               -> m

\* the body of the member function a thread is in, and the end of its lock
mgrReturn(t, cached) ==
    /\ manager.pc[t] # "idle"
    /\ manager' = [mgrBody(manager, manager.pc[t], cached) EXCEPT
                      !.writer = IF @ = t THEN NoThread ELSE @,
                      !.readers = @ \ {t},
                      !.pc[t] = "idle"]
    /\ mgrFrame

\* two threads calling the member functions of the PluginManager
NextManager ==
    \/ \E t \in MgrThreads, fn \in MgrWriteLocked : mgrWriteLock(t, fn)
    \/ \E t \in MgrThreads, fn \in MgrReadLocked : mgrReadLock(t, fn)
    \/ \E t \in MgrThreads, cached \in BOOLEAN : mgrReturn(t, cached)

SpecManager == Init /\ [][NextManager]_vars

(* ------------------------------ Pd external: t_vsteditor ---------------- *)
\* the frame of the editor: it shares nothing with the units
edFrame ==
    UNCHANGED <<instVars, queueVars, rtPc, inboxVars, syncVars, plugins, lastReset,
                openReplies, log, lastClose, fault, paramVars, dataVars, cbVars, codecVars,
                lastSetn, unitFreed, manager>>

\* the plugin is opened, with a window on the GUI thread (e_window) or without
editorOpen(win) ==
    /\ ~vsteditor.open
    /\ vsteditor' = [vsteditor EXCEPT !.open = TRUE, !.window = win]
    /\ edFrame

\* the clock without the clock_delay of post_event
clockKept(clock) == clock

\* clock_delay(e_clock, 0): the clock is set, whether it was set or not
clock_delay(clock) == TRUE

\* post_event on the GUI thread, e_mutex.lock(): the thread waits for the mutex
guiPostLock(kind) ==
    /\ vsteditor.open /\ vsteditor.window
    /\ vsteditor.gui = "idle"
    /\ vsteditor.posted < MaxEvents
    /\ vsteditor.mutex = NoThread
    /\ vsteditor' = [vsteditor EXCEPT !.mutex = "gui", !.posted = @ + 1,
                                !.guiEv = [id |-> vsteditor.posted + 1, kind |-> kind],
                                !.gui = "push_back"]
    /\ edFrame

\* queue.push_back(event)
guiPostPush ==
    /\ vsteditor.gui = "push_back"
    /\ vsteditor' = [vsteditor EXCEPT !.queue[vsteditor.guiEv.kind] = Append(@, vsteditor.guiEv.id),
                                !.gui = "unlock"]
    /\ edFrame

\* e_mutex.unlock()
guiPostUnlock ==
    /\ vsteditor.gui = "unlock"
    /\ vsteditor' = [vsteditor EXCEPT !.mutex = NoThread, !.gui = "sys_lock"]
    /\ edFrame

\* sys_lock(): the GUI thread waits for the scheduler of Pd
guiPostSysLock ==
    /\ vsteditor.gui = "sys_lock"
    /\ vsteditor.sys = NoThread
    /\ vsteditor' = [vsteditor EXCEPT !.sys = "gui", !.gui = "clock_delay"]
    /\ edFrame

\* clock_delay(e_clock, 0)
guiPostClockDelay ==
    /\ vsteditor.gui = "clock_delay"
    /\ vsteditor' = [vsteditor EXCEPT !.clock = clock_delay(@), !.gui = "sys_unlock"]
    /\ edFrame

\* sys_unlock()
guiPostSysUnlock ==
    /\ vsteditor.gui = "sys_unlock"
    /\ vsteditor' = [vsteditor EXCEPT !.sys = NoThread, !.guiEv = NoEvent, !.gui = "idle"]
    /\ edFrame

\* post_event on the main thread, from a message or from an outlet of tick():
\* the main thread holds the scheduler, waits for e_mutex when there is a
\* window, pushes and sets the clock
mainPostEvent(kind) ==
    /\ vsteditor.open
    /\ vsteditor.posted < MaxEvents
    /\ vsteditor.main = "output" \/ vsteditor.sys = NoThread
    /\ vsteditor.window => vsteditor.mutex = NoThread
    /\ vsteditor' = [vsteditor EXCEPT !.posted = @ + 1,
                                !.queue[kind] = Append(@, vsteditor.posted + 1),
                                !.clock = clock_delay(@)]
    /\ edFrame

\* the events of one queue, as tick() outputs them
RECURSIVE eventsOf(_, _)
eventsOf(kind, ids) ==
    IF ids = << >> THEN << >>
    ELSE <<[id |-> Head(ids), kind |-> kind]>> \o eventsOf(kind, Tail(ids))

\* tick(), called by the scheduler when the clock is due: with a window it
\* gives up when try_lock fails, else it swaps the three queues
tick ==
    /\ vsteditor.clock
    /\ vsteditor.main = "idle"
    /\ vsteditor.sys = NoThread
    /\ IF vsteditor.window /\ vsteditor.mutex # NoThread
       THEN vsteditor' = [vsteditor EXCEPT !.clock = FALSE, !.gaveUp = TRUE]
       ELSE vsteditor' = [vsteditor EXCEPT
                          !.clock = FALSE, !.sys = "main", !.main = "output",
                          !.swapped = eventsOf(EventKinds[1], vsteditor.queue[EventKinds[1]])
                                      \o eventsOf(EventKinds[2], vsteditor.queue[EventKinds[2]])
                                      \o eventsOf(EventKinds[3], vsteditor.queue[EventKinds[3]]),
                          !.queue = [k \in DOMAIN vsteditor.queue |-> << >>]]
    /\ edFrame

\* tick(): outlet_anything for the next swapped event
tickOutput ==
    /\ vsteditor.main = "output"
    /\ vsteditor.swapped # << >>
    /\ vsteditor' = [vsteditor EXCEPT !.out = Append(@, Head(vsteditor.swapped)),
                                !.swapped = Tail(@)]
    /\ edFrame

\* tick() returns to the scheduler
tickReturn ==
    /\ vsteditor.main = "output"
    /\ vsteditor.swapped = << >>
    /\ vsteditor' = [vsteditor EXCEPT !.main = "idle", !.sys = NoThread]
    /\ edFrame

\* the GUI thread and the main thread of Pd around one t_vsteditor
NextEditor ==
    \/ \E win \in BOOLEAN : editorOpen(win)
    \/ \E i \in 1..3 : guiPostLock(EventKinds[i])
    \/ guiPostPush
    \/ guiPostUnlock
    \/ guiPostSysLock
    \/ guiPostClockDelay
    \/ guiPostSysUnlock
    \/ \E i \in 1..3 : mainPostEvent(EventKinds[i])
    \/ tick
    \/ tickOutput
    \/ tickReturn

SpecEditor == Init /\ [][NextEditor]_vars

\* a thread inside post_event goes on, a lock that stays free is taken, and
\* the scheduler calls a clock that is set; nobody has to post
SpecEditorFair ==
    /\ SpecEditor
    /\ WF_vars(guiPostPush) /\ WF_vars(guiPostUnlock) /\ WF_vars(guiPostSysLock)
    /\ WF_vars(guiPostClockDelay) /\ WF_vars(guiPostSysUnlock)
    /\ WF_vars(tick) /\ WF_vars(tickOutput) /\ WF_vars(tickReturn)

\* the ids of the events in the queues, and of the events sent to the outlet
QueuedEvents == UNION {{vsteditor.queue[k][i] : i \in 1..Len(vsteditor.queue[k])} : k \in DOMAIN vsteditor.queue}
OutputEvents == {vsteditor.out[i].id : i \in 1..Len(vsteditor.out)}

NextSync ==
    \/ \E gui, loadOk, editor, alloc \in BOOLEAN : VstPlugin_open(gui, loadOk, editor, alloc)
    \/ VstPlugin_close
    \/ VstPlugin_reset
    \/ \E bypass \in BOOLEAN : VstPlugin_next(bypass)
    \/ VstPlugin_nextWait
    \/ VstPlugin_nextDrain
    \/ \E index \in ParamIdx : VstPluginListener_lock(index, Len(pushed) + 1)
    \/ \E alloc \in BOOLEAN, outcome \in {"intact", "corrupt", "crash"} :
            VstPluginListener_push(alloc, outcome)

SpecSync == Init /\ [][NextSync]_vars

(***************************************************************************)
(* Properties                                                              *)
(***************************************************************************)
\* the states of a Plugin Host Instance
Empty == plugin_ = Null /\ window_ = Null /\ thread_ = Null /\ ~isLoading_
Ready ==
    /\ plugin_ # Null
    /\ plugins[plugin_].state = "live"
    /\ window_ \in {Null, plugin_}
    /\ thread_ = window_
    /\ ~isLoading_
Loading == plugin_ = Null /\ window_ = Null /\ thread_ = Null /\ isLoading_

\* the Open commands in flight
OpensInFlight == {i \in DOMAIN InFlight : InFlight[i].kind = "Open"}

\* C1: the audio thread never blocks on the mutex of the Event Inbox: no
\* call of next() ever waits for the lock the GUI thread holds.
AudioNeverWaitsForInbox == rtPc # "waiting"

\* C2: the plugin is never used by two threads at once: the worker is never
\* inside a command stage that calls into the plugin the instance holds
\* while the audio thread is inside next() using that same plugin.
PluginNeverShared ==
    ~(/\ rtPc = "process"
      /\ nrtCur # << >>
      /\ UsesOwnerPlugin(nrtCur[1].kind)
      /\ nrtCur[1].target # Null
      /\ nrtCur[1].target = plugin_)

\* C3: once an Open and a close() called after it (while the Open was pending
\* or after it was answered) have both completed, the plugin that Open
\* created has been released and the instance holds no plugin.
CloseObservesOpen ==
    (/\ nOpens > 0
     /\ lastClose[1] = nOpens
     /\ InFlight = << >>
     /\ fault = "none")
    => (plugin_ = Null /\ plugins[nOpens].state # "live")

\* C4: after an Open answered with /open {1, e}, a close() brings the
\* instance back to Empty, the state in which the next open() is not dropped
\* and submits its Open; and when the Close command has completed the plugin
\* is released, so the next Open loads into a free instance.
CloseReturnsToEmpty ==
    (/\ nOpens > 0
     /\ lastClose = <<nOpens, FALSE>>
     /\ Len(openReplies) = nOpens
     /\ openReplies[nOpens][1] = 1)
    => /\ Empty
       /\ ~alreadyLoading
       /\ (InFlight = << >> /\ fault = "none") =>
             (plugins[nOpens].state = "freed" /\ plugins[nOpens].frees = 1)

CloseReturnsToEmptyWitness ==
    /\ nOpens > 0
    /\ lastClose = <<nOpens, FALSE>>
    /\ Len(openReplies) = nOpens
    /\ openReplies[nOpens][1] = 1
    /\ InFlight = << >>
    /\ plugins[nOpens].state = "freed"

\* C5: an open() called while an Open of the instance is loading is dropped:
\* the step submits no command and changes no field of the instance, and
\* there is one Open in flight while loading, so that the replies and the
\* Opens in flight together count one per accepted open().
SecondOpenDropped ==
    /\ [](/\ Cardinality(OpensInFlight) = (IF isLoading_ THEN 1 ELSE 0)
          /\ Len(openReplies) + Cardinality(OpensInFlight) = nOpens)
    /\ [][(isLoading_ /\ log' = "already loading!" /\ log' # log)
            => UNCHANGED <<instVars, queueVars, plugins, openReplies>>]_vars

SecondOpenDroppedWitness ==
    /\ isLoading_
    /\ log = "already loading!"
    /\ nOpens = 1
    /\ Cardinality(OpensInFlight) = 1
    /\ openReplies = << >>

\* C6: the events the GUI thread pushed are delivered once each and in the
\* order they were pushed: the events delivered so far followed by the events
\* still in the inbox are exactly the events pushed.
InboxDeliveredInOrder ==
    fault = "none" => delivered \o paramQueue_ = pushed

\* C7: next() never resets the plugin, whatever the bypass input does: the
\* last suspend+resume is never one made by next().
NextNeverResets == lastReset # "next"

\* C8: whatever fails on the worker, the instance is Empty, Loading or
\* Ready; and the audio-side stage of an Open that produced no plugin
\* replies /open 0 and leaves the instance Empty, where open() is accepted.
FailureLeavesEmptyOrReady ==
    /\ [](/\ (Empty \/ Loading \/ Ready)
          /\ (OpensInFlight = {} => (Empty \/ Ready)))
    /\ [][(/\ rtQueue # << >>
           /\ Head(rtQueue).kind = "Open"
           /\ Head(rtQueue).plugin = Null
           /\ rtDone' # rtDone)
            => (/\ Empty'
                /\ ~alreadyLoading'
                /\ openReplies' = Append(openReplies, <<0>>))]_vars

FailureLeavesEmptyOrReadyWitness ==
    /\ nOpens = 2
    /\ openReplies # << >>
    /\ openReplies[1] = <<0>>
    /\ plugins[1].state = "none"

\* C9: a close() that submits a Close command puts the plugin, the window
\* and the GUI thread it held into that command and clears its own fields in
\* that same step, which leaves an instance whose open() is not dropped.
CloseMovesHandles ==
    [][(/\ Len(nrtQueue') = Len(nrtQueue) + 1
        /\ nOpens' = nOpens
        /\ nrtQueue'[Len(nrtQueue')].kind = "Close")
        => LET c == nrtQueue'[Len(nrtQueue')] IN
            /\ plugin_ # Null
            /\ c.plugin = plugin_ /\ c.window = window_ /\ c.thread = thread_
            /\ plugin_' = Null /\ window_' = Null /\ thread_' = Null
            /\ ~alreadyLoading']_vars

CloseMovesHandlesWitness ==
    /\ nrtQueue # << >>
    /\ nrtQueue[Len(nrtQueue)].kind = "Close"
    /\ nrtQueue[Len(nrtQueue)].window # Null
    /\ nrtQueue[Len(nrtQueue)].plugin = nOpens
    /\ plugins[nOpens].state = "live"
    /\ Empty

\* C10: the commands of an instance go through the worker stage and through
\* the audio stage in the order they were submitted, one after the other, so
\* the Close that open() submits for the loaded plugin is done before its
\* Open: there are never two live plugins.
CommandsInOrder ==
    /\ [](/\ rtDone <= nrtDone
          /\ nrtDone <= nSubmitted
          /\ \A i \in DOMAIN InFlight : InFlight[i].seq = rtDone + i
          /\ Cardinality(Live) <= 1)
    /\ [][/\ nrtDone' \in {nrtDone, nrtDone + 1}
          /\ rtDone' \in {rtDone, rtDone + 1}]_vars

CommandsInOrderWitness ==
    /\ nOpens = 2
    /\ rtDone >= 3
    /\ plugins[1].state = "freed"
    /\ plugins[2].state = "live"
    /\ plugin_ = 2
    /\ lastClose = <<0, FALSE>>

\* a processed block begins: next() goes into the backend section
BlockBegins == rtPc = "idle" /\ rtPc' = "process"

\* the last SetParam command in flight for parameter i, as a set
LastSetParam(i) ==
    LET ks == {k \in DOMAIN InFlight :
                 InFlight[k].kind = "SetParam" /\ InFlight[k].index = i}
    IN {InFlight[k] : k \in {k \in ks : \A j \in ks : j <= k}}

\* C12: after a setParam(i, v) that was accepted, a process call sees
\* parameter i at v as long as nothing else has written the parameter: while
\* the audio thread is in the backend section and the parameter is not
\* mapped, the plugin holds the value of the last SetParam command for i.
SetParamVisibleToProcess ==
    \A i \in ParamIdx : \A c \in LastSetParam(i) :
        (/\ rtPc = "process"
         /\ fault = "none"
         /\ paramStates_ # NoStates
         /\ paramStates_[i].bus = NoBus)
        => plugins[plugin_].param[i] = c.value

SlotMirrorsBackend ==
    (/\ rtPc = "idle"
     /\ fault = "none"
     /\ plugin_ # Null
     /\ paramStates_ # NoStates)
    => \A i \in ParamIdx :
          paramStates_[i].value =
             (IF plugins[plugin_].param[i] = 0 THEN NaN ELSE plugins[plugin_].param[i])

\* C15: in every processed block, for every parameter mapped to the bus,
\* setParameter is called with the value of the bus if and only if that value
\* differs from the value of the slot, the one sent before; nothing else is
\* sent for a mapped parameter.
MappedSetOnChange ==
    [][(BlockBegins /\ paramStates_ # NoStates)
        => \A i \in ParamIdx :
             paramStates_[i].bus >= 0 =>
               /\ {c \in block'.calls : c[1] = i} =
                     (IF FloatNe(block'.bus, paramStates_[i].value)
                      THEN {<<i, block'.bus, "bus">>} ELSE {})
               /\ paramStates_'[i] = [value |-> block'.bus, bus |-> paramStates_[i].bus]
               /\ plugins'[plugin_].param[i] =
                     (IF FloatNe(block'.bus, paramStates_[i].value)
                      THEN block'.bus ELSE plugins[plugin_].param[i])]_vars

MappedSetOnChangeWitness ==
    /\ rtPc = "process"
    /\ paramStates_ # NoStates
    /\ paramStates_[0] = [value |-> 2, bus |-> TheBus]
    /\ block.bus = 2
    /\ block.calls = {}
    /\ plugins[plugin_].param[0] = 2

\* C16, as stated: after unmapParam(i) a block calls setParameter for i only
\* when the parameter control input changed since the block before.
UnmappedSetOnlyOnInputChange ==
    rtPc = "process" =>
        \A c \in block.calls : c[1] \in unmapped => block.changed

\* C16, amended: after unmapParam(i) a processed block calls setParameter
\* for i if and only if a parameter control input addresses i with a value
\* that differs from the value of the slot, whether or not the input changed.
UnmappedSetOnInputDiffers ==
    [][(BlockBegins /\ paramStates_ # NoStates)
        => \A i \in unmapped :
             {c \in block'.calls : c[1] = i} =
                {<<i, block'.in[k].value, "in">> :
                    k \in {k \in DOMAIN block'.in :
                             /\ block'.in[k].index = i
                             /\ FloatNe(block'.in[k].value, paramStates_[i].value)}}]_vars

UnmappedSetOnInputDiffersWitness ==
    /\ rtPc = "process"
    /\ 0 \in unmapped
    /\ ~block.changed
    /\ block.calls = {<<0, 1, "in">>}

\* the callbacks of one kind made on one thread
Callbacks(kinds, thread) ==
    {callbacks[k] : k \in {k \in DOMAIN callbacks :
                             callbacks[k].kind \in kinds /\ callbacks[k].thread = thread}}

\* the events in a sequence of events, as a set
Events(q) == {q[k] : k \in DOMAIN q}

\* C17: a parameterAutomated(i, v) callback made on the audio thread is
\* delivered inline: when the callback has returned, its /vst_param and
\* /vst_auto replies are in the reply stream.
AudioAutomationInline ==
    \A c \in Callbacks({"param"}, "rt") :
        [index |-> c.index, value |-> c.value] \in Events(delivered)

\* C18: a MIDI or sysex callback is routed by its thread: made on the audio
\* thread it is in the reply stream when it returns, made on the GUI thread it
\* is in the Event Inbox or, later, in the reply stream, and made on the
\* worker it is in neither.
MidiRoutedByThread ==
    /\ \A c \in Callbacks({"midi", "sysex"}, "rt") :
          fault = "none" => <<c.kind, c.value>> \in Events(midiOut)
    /\ \A c \in Callbacks({"midi", "sysex"}, "gui") :
          \/ <<c.kind, c.value>> \in Events(midiOut)
          \/ \E ev \in Events(paramQueue_) : ev.value = c.value
    /\ \A c \in Callbacks({"midi", "sysex"}, "nrt") :
          <<c.kind, c.value>> \notin Events(midiOut)

(* ------------------------------ preset data ---------------------------- *)
\* C11: No reply reads the memory of a command after cmdRTfree gave it back:
\* every reply of a preset command was built while its command was allocated,
\* a command that was given back is out of every queue, and it was given back
\* only after its stage 2 and its stage 3 had both run.
RepliesReadLiveCommand ==
    /\ \A k \in DOMAIN dataReplies : dataReplies[k].live
    /\ \A f \in freed :
        /\ f.stages = 2
        /\ \A i \in DOMAIN InFlight : InFlight[i].seq # f.seq

\* a packet of the preset was sent as /vst_program_data, and the command that
\* carried it has been given back since
RepliesReadLiveCommandWitness ==
    \E k \in DOMAIN dataReplies :
        /\ dataReplies[k].addr = "/vst_program_data"
        /\ Len(dataReplies[k].args) > 3
        /\ dataReplies[k].seq \in FreedSeqs

\* C19: When the last packet of an upload that came in order submits its
\* command, the payload of the command is the bytes of the packets in their
\* order, which is the payload sendData submits for the same bytes in one
\* packet with onset 0; and the SetProgramData / SetBankData command gives
\* the plugin exactly its payload.
StreamedUploadEqualsSingleShot ==
    [][ /\ (upload'.inOrder /\ nSubmitted' = nSubmitted + 1 /\ upload' # upload) =>
            LET cmd == nrtQueue'[Len(nrtQueue')]
                single == sendDataResult([rt |-> dataRT_, size |-> dataSize_,
                                          received |-> dataReceived_],
                                         Len(upload'.bytes), 0, upload'.bytes, TRUE)
            IN /\ single.finished
               /\ cmd.kind \in {"SetProgramData", "SetBankData"}
               /\ cmd.size = single.size
               /\ Payloads(single.rt, single.size) = {cmd.buf}
               /\ cmd.buf = upload'.bytes
        /\ (/\ nrtCur # << >>
            /\ nrtCur[1].kind \in {"SetProgramData", "SetBankData"}
            /\ nrtCur' = << >>) =>
            plugins'[nrtCur[1].target].data = nrtCur[1].buf
      ]_vars

\* a preset of MaxData bytes was uploaded in order, one byte in each packet,
\* and the plugin has read it
StreamedUploadEqualsSingleShotWitness ==
    /\ upload.inOrder
    /\ upload.packets = MaxData
    /\ upload.cmds = 1
    /\ Len(upload.bytes) = MaxData
    /\ plugin_ # Null
    /\ plugins[plugin_].data = upload.bytes
    /\ \E k \in DOMAIN dataReplies :
        dataReplies[k].addr = "/vst_program_read" /\ dataReplies[k].args = <<1>>

\* C20: While the packets of an upload come in order, the packet with onset 0
\* has recorded the total size and restarted the count, the buffer begins
\* with the bytes of the packets in their order, and the command has been
\* submitted once if all the bytes of the total size have come and
\* makeCmdData returned a command, and not at all otherwise.
UploadSubmitsOnceAtCompletion ==
    upload.inOrder =>
        LET got == Len(upload.bytes)
            complete == got = upload.total
        IN /\ dataSize_ = upload.total
           /\ got <= upload.total
           /\ Len(dataRT_) = upload.total
           /\ SubSeq(dataRT_, 1, got) = upload.bytes
           /\ dataReceived_ = IF complete THEN 0 ELSE got
           /\ upload.cmds = IF complete /\ ~upload.dropped THEN 1 ELSE 0

\* the second packet of an upload in order completed it and its command was
\* submitted
UploadSubmitsOnceAtCompletionWitness ==
    /\ upload.inOrder
    /\ upload.packets = 2
    /\ upload.total = MaxData
    /\ upload.cmds = 1
    /\ \E i \in DOMAIN nrtQueue : nrtQueue[i].buf = upload.bytes

\* the /vst_program_data replies, oldest first, as [total, onset, size, bytes]
DataPackets ==
    LET idx == {k \in DOMAIN dataReplies : dataReplies[k].addr = "/vst_program_data"}
        RECURSIVE pick(_)
        pick(k) == IF k > Len(dataReplies) THEN << >>
                   ELSE IF k \in idx
                   THEN << [total |-> dataReplies[k].args[1],
                            onset |-> dataReplies[k].args[2],
                            size  |-> dataReplies[k].args[3],
                            bytes |-> SubSeq(dataReplies[k].args, 4,
                                             Len(dataReplies[k].args))] >> \o pick(k + 1)
                   ELSE pick(k + 1)
    IN pick(1)

\* C21: The packets of a download are tagged {total, onset, size}: the first
\* has onset 0, a packet with another onset begins where the packet before
\* it ended and has its total, every packet carries size bytes of the preset,
\* at least one and at most the packet budget, inside the total, and the
\* packet after one that reached the total begins a new download.
DownloadPacketsInSequence ==
    LET ps == DataPackets IN
    \A k \in DOMAIN ps :
        /\ ps[k].size = Len(ps[k].bytes)
        /\ ps[k].size >= 1
        /\ ps[k].size <= MaxPacket
        /\ ps[k].onset >= 0
        /\ ps[k].onset + ps[k].size <= ps[k].total
        /\ ps[k].bytes = SubSeq(Preset, ps[k].onset + 1, ps[k].onset + ps[k].size)
        /\ k = 1 => ps[k].onset = 0
        /\ ps[k].onset # 0 =>
            /\ ps[k].onset = ps[k - 1].onset + ps[k - 1].size
            /\ ps[k].total = ps[k - 1].total
        /\ (k > 1 /\ ps[k - 1].onset + ps[k - 1].size = ps[k - 1].total) => ps[k].onset = 0

\* a preset larger than one packet was delivered whole in two packets
DownloadPacketsInSequenceWitness ==
    LET ps == DataPackets IN
    /\ Len(ps) = 2
    /\ ps[1].total > MaxPacket
    /\ ps[1].onset = 0
    /\ ps[2].onset = ps[1].size
    /\ ps[2].onset + ps[2].size = ps[2].total

(* ------------------------------ FXP and FXB ---------------------------- *)
\* C22: readProgramData rejects data in parameter form whenever the number
\* of parameters it declares, times 4, is not the number of bytes that
\* follow the header, be they fewer or more.
ParamCountMismatchRejected ==
    (/\ fxOp.op = "readProgram"
     /\ fxOp.form = "params"
     /\ fxOp.declared * 4 # fxOp.body) => ~fxOp.result

\* C23: reading bad FXP or FXB data is rejected and leaves the backend as it
\* was: its program names, its parameters and its current program.
BadDataRejectedUnchanged ==
    (fxOp.op \in {"readProgram", "readBank"} /\ fxOp.bad) =>
        (~fxOp.result /\ ~fxOp.changed)

\* C24: a plugin without chunks that writes its current program and reads
\* the written bytes back accepts them and has the program name and the
\* parameters it had before.
FxpRoundTrip ==
    (fxOp.op = "readProgramBack" /\ ~fx.chunks) => (fxOp.result /\ ~fxOp.changed)

\* the name field of program k in a bank in parameter form
BankProgramName(buffer, k) ==
    CString(buffer, fxBankHeaderSize + k * (fxProgramHeaderSize + NumParams * 4) + 28)

FileReplies == {"/vst_program_read", "/vst_bank_read", "/vst_program_write", "/vst_bank_write"}

\* C26: every file operation of the worker that failed is answered with
\* status 0 and has left the plugin as it was, and status 1 is answered only
\* for an operation that succeeded. Violated in SpecProgram: the reply to a
\* write is 1 whether or not the file could be created.
FailedFileIOReportsZero ==
    \A k \in DOMAIN ioLog :
        /\ ~ioLog[k].ok => ~ioLog[k].changed
        /\ \A j \in DOMAIN dataReplies :
              (dataReplies[j].seq = ioLog[k].seq /\ dataReplies[j].addr \in FileReplies)
                  => (dataReplies[j].args[1] = 1 <=> ioLog[k].ok)

\* C27: the step that completes a setProgram(i) sends a /vst_program_index
\* reply that carries i and, after it, a /vst_program reply with the name of
\* the program that is now current. Violated in SpecProgram: only the index
\* is sent.
SetProgramRepliesIndexAndName ==
    [][(/\ rtQueue # << >>
        /\ Head(rtQueue).kind = "SetProgram"
        /\ rtQueue' = Tail(rtQueue)
        /\ fault' = "none")
       => \E i, j \in (Len(dataReplies) + 1)..Len(dataReplies') :
             /\ i < j
             /\ dataReplies'[i].addr = "/vst_program_index"
             /\ dataReplies'[i].args = <<Head(rtQueue).value>>
             /\ dataReplies'[j].addr = "/vst_program"
             /\ dataReplies'[j].args = <<fx'.program, FxProgramName(fx')>>]_vars

(* ------------------------------ no plugin ------------------------------ *)
\* C28: a control operation that arrives while the instance has no plugin
\* submits no command: whatever a step submits while plugin_ is null is the
\* Open or the Close of the lifecycle. Violated in SpecNotLoaded: sendData
\* does not ask check() and submits SetProgramData.
NotLoadedSubmitsNothing ==
    [][plugin_ = Null
       => \A k \in DOMAIN nrtQueue' :
             nrtQueue'[k].seq > nSubmitted => nrtQueue'[k].kind \in {"Open", "Close"}]_vars

(* -------------------------- allocation failure ------------------------- *)
\* C29: after the allocation of the parameter table failed at the end of an
\* open, the instance is still valid: no later operation and no next() call
\* goes wrong. Violated in SpecParam: setParamDone and mapParam write
\* paramStates_[index] without asking whether there is a table.
AllocFailureLeavesInstanceSafe ==
    [][(plugin_ # Null /\ paramStates_ = NoStates /\ fault = "none")
       => fault' = "none"]_vars

(* -------------------------- realtime allocator ------------------------- *)
\* C30: the GUI thread never reallocates with the realtime allocator: no step
\* of the GUI thread, which is the one that ends its lock_guard, grows the
\* parameter queue. Violated in SpecSync: VstPluginListener::parameterAutomated
\* calls RTRealloc under the lock on whichever thread the editor calls it.
GuiThreadNeverReallocates ==
    [][(guiPc = "locked" /\ guiPc' = "idle") => capacity' = capacity]_vars

(* ----------------------------- editor window --------------------------- *)
\* C31: the editor window belongs to the GUI thread: every window was created
\* on the GUI thread and every window that was destroyed was destroyed there.
\* Violated in Spec: VSTPluginCmdData::close drops the last reference to the
\* window on the worker thread, after the GUI thread has ended.
WindowOwnedByGuiThread ==
    \A p \in PluginIds :
        /\ plugins[p].window # "none" => plugins[p].windowCreatedOn = "gui"
        /\ plugins[p].window = "destroyed" => plugins[p].windowDestroyedOn = "gui"

(* --------------------------------- setn -------------------------------- *)
\* C32: a setn with (index, count, v0 .. v(count-1)) sets parameter index + k
\* to vk for every k below count whose parameter the plugin has, and sets no
\* other parameter. Violated in SpecSetn: every value goes to index + 1.
SetnSetsBlock ==
    lastSetn.set = SelectSeq(
        [k \in 1..lastSetn.count |->
            <<setnIndexOfValue(lastSetn.index, k - 1), lastSetn.values[k]>>],
        LAMBDA call : call[1] >= 0 /\ call[1] < NumParams)

(* --------------------------- stages and close -------------------------- *)
\* C33: the plugin a worker stage acts on is alive: whenever the worker is in
\* the stage of a command that acts on the owner's plugin, the plugin it got
\* from the owner is neither null nor released. Violated in Spec: the stage
\* asks the owner for its plugin when it runs, and a close() issued after the
\* command was submitted has set it to null by then.
WorkerStageTargetsLive ==
    \A k \in DOMAIN nrtCur :
        UsesOwnerPlugin(nrtCur[k].kind)
            => /\ nrtCur[k].target # Null
               /\ plugins[nrtCur[k].target].state = "live"

\* C34: the audio thread's stage of a command finds the instance as the
\* command needs it: when the stage of a command that reads the plugin runs,
\* the instance has a plugin, and for a SetParam a parameter table that holds
\* the command's index. Violated in Spec: a close() between the submission
\* and the stage leaves plugin_ null, and setParamDone asks nothing.
RtStageFindsInstance ==
    [][(/\ rtQueue # << >>
        /\ rtQueue' = Tail(rtQueue)
        /\ Head(rtQueue).kind \in {"SetParam", "SetProgram", "SetProgramData", "SetBankData",
                                   "ReadProgram", "ReadBank"})
       => /\ plugin_ # Null
          /\ Head(rtQueue).kind = "SetParam"
                => /\ paramStates_ # NoStates
                   /\ Head(rtQueue).index \in DOMAIN paramStates_]_vars

(* ------------------------------ destruction ---------------------------- *)
\* C35: once the instance is destroyed no stage of a command uses it, and
\* when no command is in flight any more no plugin is left unreleased.
\* Violated in SpecDestroy: the stages of an Open in flight reach the
\* destroyed instance through the owner pointer, and the plugin of that Open
\* is never closed.
DestroyedInstanceUntouched ==
    [][unitFreed
       => /\ ~(WorkerStageUsesOwner /\ nrtCur' = << >>)
          /\ ~cmdOpenReadsOwner
          /\ ~(RtStageUsesOwner /\ rtQueue' = Tail(rtQueue))
          /\ (InFlight' = << >> => Live' = {})]_vars

(* -------------------------------- loading ------------------------------ *)
\* C36: isLoading_ is true exactly while an Open command of the instance is
\* in flight, and there is never more than one; it becomes true only in a
\* step that submits an Open, and false only in the step in which the audio
\* thread runs the stage of that Open.
LoadingIffOpenInFlight ==
    /\ [](/\ Cardinality(OpensInFlight) <= 1
          /\ isLoading_ <=> OpensInFlight # {})
    /\ [][(~isLoading_ /\ isLoading_')
            => /\ nSubmitted' > nSubmitted
               /\ nrtQueue' # << >>
               /\ nrtQueue'[Len(nrtQueue')].kind = "Open"
               /\ nrtQueue'[Len(nrtQueue')].seq = nSubmitted']_vars
    /\ [][(isLoading_ /\ ~isLoading_')
            => /\ rtQueue # << >>
               /\ Head(rtQueue).kind = "Open"
               /\ rtQueue' = Tail(rtQueue)]_vars

\* the second Open of the instance is in flight: isLoading_ was set, cleared
\* by the stage of the first Open, and set again
LoadingIffOpenInFlightWitness ==
    /\ isLoading_
    /\ nOpens = 2
    /\ Len(openReplies) = 1
    /\ Cardinality(OpensInFlight) = 1

(* -------------------------------- release ------------------------------ *)
\* C37: every plugin an Open created is released once and where it belongs:
\* no plugin is released twice, a live plugin is the instance's or is carried
\* by a command in flight (so that it will be released), and a plugin that
\* was created on the GUI thread was released on the GUI thread. Violated in
\* Spec: a plugin without an editor that was opened with gui is created on
\* the GUI thread and released by the worker.
ReleasedOnceWhereCreated ==
    \A p \in PluginIds :
        /\ plugins[p].frees <= 1
        /\ plugins[p].state = "live"
              => \/ plugin_ = p
                 \/ \E k \in DOMAIN InFlight : InFlight[k].plugin = p
        /\ (plugins[p].state = "freed" /\ plugins[p].createdOn = "gui")
              => plugins[p].freedOn = "gui"

(* ---------------------------- upload: bounds --------------------------- *)
\* the packets of any shape: a total size from -1 on, an onset before, in
\* and behind the preset, and 1 to MaxData bytes
AnyPackets ==
    {[totalSize |-> t, onset |-> o, data |-> SubSeq(Preset, 1, n)] :
        <<t, o, n>> \in ((-1)..MaxData) \X ((-1)..(MaxData + 1)) \X (1..MaxData)}

\* what sendData does with a packet in the current state of the upload
sendDataNow(p, alloc) ==
    sendDataResult([rt |-> dataRT_, size |-> dataSize_, received |-> dataReceived_],
                   p.totalSize, p.onset, p.data, alloc)

\* C38: whatever packet arrives in whatever state of the upload, the bytes
\* sendData copies lie inside the buffer of the current upload (0 <= onset
\* and onset + copied <= the recorded total size, which the buffer has), and
\* dataReceived_ counts from 0 in a new upload and is 0 after a complete one.
CopyStaysInsideBuffer ==
    /\ dataSize_ > 0 => Len(dataRT_) >= dataSize_
    /\ \A p \in AnyPackets, alloc \in BOOLEAN :
          LET r == sendDataNow(p, alloc) IN
          /\ r.copied => /\ p.onset >= 0
                         /\ r.n >= 0
                         /\ p.onset + r.n <= r.size
                         /\ r.size <= Len(r.rt)
          /\ r.finished => r.received = 0
          /\ p.onset = 0 => r.received = (IF r.finished THEN 0 ELSE r.n)

\* an upload is under way and there is a packet that does not fit into the
\* rest of the buffer, of which sendData copies a part
CopyStaysInsideBufferWitness ==
    /\ dataSize_ > 0
    /\ dataReceived_ > 0
    /\ \E p \in AnyPackets :
          LET r == sendDataNow(p, TRUE) IN
          /\ p.onset > 0
          /\ r.copied
          /\ r.n < Len(p.data)

(* ------------------------------ PluginManager -------------------------- *)
\* C39: a thread that is in a member function that changes the registries
\* holds the write lock, so that no other thread is in the PluginManager
\* with it. Violated in SpecManager: read() changes plugins_, exceptions_ and
\* factories_ under a ReadLock, next to findPlugin or a second read().
MutationsHoldWriteLock ==
    \A t \in MgrThreads :
        manager.pc[t] \in MgrMutators
            => /\ manager.writer = t
               /\ \A u \in MgrThreads \ {t} : manager.pc[u] = "idle"

(* ------------------------------ Pd external: t_vsteditor ---------------- *)
\* C40: no event is sent to the outlet twice or without having been posted,
\* and every event that post_event has pushed, from the GUI thread or from
\* the main thread, is sent to the outlet in the end, also after a tick that
\* gave up on try_lock.
PostedEventsOutputOnce ==
    /\ [](/\ \A i, j \in 1..Len(vsteditor.out) : i # j => vsteditor.out[i].id # vsteditor.out[j].id
          /\ OutputEvents \subseteq 1..vsteditor.posted
          /\ OutputEvents \cap QueuedEvents = {})
    /\ \A n \in 1..MaxEvents : (n \in QueuedEvents) ~> (n \in OutputEvents)

\* a tick gave up, and every event has been output since
PostedEventsOutputOnceWitness ==
    /\ vsteditor.gaveUp
    /\ vsteditor.posted = MaxEvents
    /\ OutputEvents = 1..MaxEvents
    /\ vsteditor.main = "idle" /\ vsteditor.gui = "idle"

====
